---------------------------- MODULE Spec2Model ----------------------------
(***************************************************************************)
(* Fund portfolio calculators (portfolio-calculator.js and the variant in  *)
(* fund-distribution-parser.js): money-market and mutual-fund              *)
(* reinvestment accumulation.                                              *)
(*                                                                         *)
(* JavaScript numbers are modelled as exact rationals extended with NaN,   *)
(* +Infinity and -Infinity; null and undefined are separate values that    *)
(* arithmetic coerces as JavaScript does (null -> 0, undefined -> NaN).    *)
(* Binary floating-point rounding is not modelled.  Strings that the code  *)
(* parses (rates, amounts) are tuples of one-character strings.            *)
(***************************************************************************)
EXTENDS Integers, Sequences, FiniteSets, TLC

(***************************************************************************)
(* JavaScript values                                                       *)
(***************************************************************************)
Abs(x) == IF x < 0 THEN 0 - x ELSE x

RECURSIVE GCD(_, _)
GCD(a, b) == IF b = 0 THEN a ELSE GCD(b, a % b)

\* A finite number n/d in lowest terms with d > 0.
Num(n, d) ==
    LET g == GCD(Abs(n), Abs(d))
        s == IF d < 0 THEN 0 - 1 ELSE 1
    IN  [k |-> "num", n |-> (s * n) \div g, d |-> Abs(d) \div g]

Whole(n) == [k |-> "num", n |-> n, d |-> 1]
NaN == [k |-> "nan", n |-> 0, d |-> 1]
Inf(s) == [k |-> "inf", n |-> s, d |-> 1]
Null == [k |-> "null", n |-> 0, d |-> 1]
Undefined == [k |-> "undef", n |-> 0, d |-> 1]

IsFinite(v) == v.k = "num"
IsNaN(v) == v.k = "nan"
Sign(v) == IF v.n < 0 THEN 0 - 1 ELSE IF v.n > 0 THEN 1 ELSE 0

\* ToNumber of the operand of an arithmetic operator.
ToNumber(v) ==
    CASE v.k = "null" -> Whole(0)
      [] v.k = "undef" -> NaN
      [] OTHER -> v

\* a * b
Mul(x, y) ==
    LET a == ToNumber(x)
        b == ToNumber(y)
    IN  CASE IsNaN(a) \/ IsNaN(b) -> NaN
          [] IsFinite(a) /\ IsFinite(b) ->
                LET g1 == GCD(Abs(a.n), b.d)
                    g2 == GCD(Abs(b.n), a.d)
                IN  Num((a.n \div g1) * (b.n \div g2), (a.d \div g2) * (b.d \div g1))
          [] OTHER -> IF Sign(a) * Sign(b) = 0 THEN NaN ELSE Inf(Sign(a) * Sign(b))

\* a / b
Div(x, y) ==
    LET a == ToNumber(x)
        b == ToNumber(y)
    IN  CASE IsNaN(a) \/ IsNaN(b) -> NaN
          [] IsFinite(a) /\ IsFinite(b) ->
                IF b.n = 0
                THEN IF a.n = 0 THEN NaN ELSE Inf(Sign(a))
                ELSE Mul(a, Num(b.d, b.n))
          [] IsFinite(a) -> Whole(0)
          [] IsFinite(b) -> Inf(IF Sign(b) < 0 THEN 0 - Sign(a) ELSE Sign(a))
          [] OTHER -> NaN

\* a + b
Add(x, y) ==
    LET a == ToNumber(x)
        b == ToNumber(y)
    IN  CASE IsNaN(a) \/ IsNaN(b) -> NaN
          [] IsFinite(a) /\ IsFinite(b) ->
                LET g == GCD(a.d, b.d)
                IN  Num(a.n * (b.d \div g) + b.n * (a.d \div g), (a.d \div g) * b.d)
          [] IsFinite(a) -> b
          [] IsFinite(b) -> a
          [] OTHER -> IF a.n = b.n THEN a ELSE NaN

Neg(x) ==
    LET a == ToNumber(x)
    IN  IF IsNaN(a) THEN NaN ELSE [a EXCEPT !.n = 0 - a.n]

\* a - b
Sub(x, y) == Add(x, Neg(y))

\* a >= b on numbers (false when either is NaN)
Geq(x, y) ==
    LET a == ToNumber(x)
        b == ToNumber(y)
    IN  CASE IsNaN(a) \/ IsNaN(b) -> FALSE
          [] IsFinite(a) /\ IsFinite(b) -> Add(a, [b EXCEPT !.n = 0 - b.n]).n >= 0
          [] IsFinite(a) -> b.n < 0
          [] IsFinite(b) -> a.n > 0
          [] OTHER -> a.n >= b.n

\* truthiness of a number, as in  x || 0
Truthy(v) == ~(v.k \in {"nan", "null", "undef"}) /\ ~(v.k = "num" /\ v.n = 0)

OrZero(v) == IF Truthy(v) THEN v ELSE Whole(0)

(***************************************************************************)
(* parseFloat and Number.prototype.toFixed                                 *)
(***************************************************************************)
IsDigit(c) == c \in {"0", "1", "2", "3", "4", "5", "6", "7", "8", "9"}

DigitVal(c) ==
    CASE c = "0" -> 0 [] c = "1" -> 1 [] c = "2" -> 2 [] c = "3" -> 3
      [] c = "4" -> 4 [] c = "5" -> 5 [] c = "6" -> 6 [] c = "7" -> 7
      [] c = "8" -> 8 [] c = "9" -> 9

\* Number of consecutive decimal digits of s starting at position i.
RECURSIVE DigitRun(_, _)
DigitRun(s, i) ==
    IF i <= Len(s) /\ IsDigit(s[i]) THEN 1 + DigitRun(s, i + 1) ELSE 0

\* Value of the n digits of s that start at position i.
RECURSIVE DigitsValue(_, _, _)
DigitsValue(s, i, n) ==
    IF n = 0 THEN 0 ELSE 10 * DigitsValue(s, i, n - 1) + DigitVal(s[i + n - 1])

RECURSIVE Pow10(_)
Pow10(n) == IF n = 0 THEN 1 ELSE 10 * Pow10(n - 1)

\* parseFloat(s): the longest numeric prefix [sign] digits [. digits];
\* NaN when the prefix holds no digit.  (Exponents are not modelled.)
ParseFloat(s) ==
    LET signed == Len(s) >= 1 /\ s[1] \in {"-", "+"}
        st == IF signed THEN 2 ELSE 1
        ni == DigitRun(s, st)
        dot == st + ni <= Len(s) /\ s[st + ni] = "."
        nf == IF dot THEN DigitRun(s, st + ni + 1) ELSE 0
        mag == DigitsValue(s, st, ni) * Pow10(nf) + DigitsValue(s, st + ni + 1, nf)
    IN  IF ni + nf = 0
        THEN NaN
        ELSE Num(IF signed /\ s[1] = "-" THEN 0 - mag ELSE mag, Pow10(nf))

\* The first n decimals of r/d (0 <= r < d), as an integer.
RECURSIVE Decimals(_, _, _)
Decimals(r, d, n) ==
    IF n = 0 THEN 0
    ELSE ((10 * r) \div d) * Pow10(n - 1) + Decimals((10 * r) % d, d, n - 1)

\* The remainder left after the first n decimals of r/d.
RECURSIVE DecimalsRest(_, _, _)
DecimalsRest(r, d, n) ==
    IF n = 0 THEN r ELSE DecimalsRest((10 * r) % d, d, n - 1)

\* The text a call v.toFixed(digits) returns: a decimal with the given number
\* of decimals, rounded half away from zero, or "NaN" / "Infinity".
\* Calling it on null or undefined throws a TypeError: see Throws.
ToFixed(v, digits) ==
    CASE v.k = "nan" -> [k |-> "NaN", neg |-> FALSE, ip |-> 0, fp |-> 0]
      [] v.k = "inf" -> [k |-> "Infinity", neg |-> v.n < 0, ip |-> 0, fp |-> 0]
      [] v.k = "num" ->
            LET m == Abs(v.n)
                ip == m \div v.d
                fp == Decimals(m % v.d, v.d, digits)
                up == 2 * DecimalsRest(m % v.d, v.d, digits) >= v.d
                fr == IF up THEN fp + 1 ELSE fp
                carry == fr = Pow10(digits)
            IN  [k |-> "dec", neg |-> v.n < 0,
                 ip |-> IF carry THEN ip + 1 ELSE ip,
                 fp |-> IF carry THEN 0 ELSE fr]
      [] OTHER -> [k |-> "TypeError", neg |-> FALSE, ip |-> 0, fp |-> 0]

\* v.toFixed(...) throws when v is null or undefined.
Throws(v) == v.k \in {"null", "undef"}

(***************************************************************************)
(* Dates.  Time is counted in hours from 2024-12-30T00:00Z.  A date string *)
(* is a shape and a calendar day (day 0 is 2024-12-30).                    *)
(***************************************************************************)
ISO(day) == [shape |-> "YYYY-MM-DD", day |-> day]
US(day) == [shape |-> "MM/DD/YY", day |-> day]
BadDate == [shape |-> "text", day |-> 0]

InvalidDate == [valid |-> FALSE, t |-> 0]
DateAt(t) == [valid |-> TRUE, t |-> t]

\* new Date(string): a date-only ISO string is midnight UTC, a MM/DD/YY
\* string is midnight local time (offset hours east of UTC), anything else
\* is an Invalid Date.
NewDate(str, offset) ==
    CASE str.shape = "YYYY-MM-DD" -> DateAt(24 * str.day)
      [] str.shape = "MM/DD/YY" -> DateAt(24 * str.day - offset)
      [] OTHER -> InvalidDate

\* new Date(timestamp * 1000), the timestamp being an instant
DateOfTimestamp(ts) == DateAt(ts)

\* a >= b on Date objects (false when either is invalid)
DateGeq(a, b) == a.valid /\ b.valid /\ a.t >= b.t

\* a <= b on Date objects
DateLeq(a, b) == a.valid /\ b.valid /\ a.t <= b.t

\* const startDate = new Date('2024-12-30')
startDate == NewDate(ISO(0), 0)

(***************************************************************************)
(* Array helpers                                                           *)
(***************************************************************************)
\* The instant of an entry's date, new Date(e.date).
TimeOf(e, offset) == NewDate(e.date, offset).t

\* Insert e into the sorted array arr behind every element that does not
\* compare greater than it: the array sort is stable.
RECURSIVE InsertByDate(_, _, _)
InsertByDate(arr, e, offset) ==
    IF arr = <<>> THEN <<e>>
    ELSE IF TimeOf(Head(arr), offset) - TimeOf(e, offset) > 0
         THEN <<e>> \o arr
         ELSE <<Head(arr)>> \o InsertByDate(Tail(arr), e, offset)

\* arr.sort((a, b) => new Date(a.date) - new Date(b.date))
RECURSIVE SortByDate(_, _)
SortByDate(arr, offset) ==
    IF arr = <<>> THEN <<>>
    ELSE InsertByDate(SortByDate(SubSeq(arr, 1, Len(arr) - 1), offset),
                      arr[Len(arr)], offset)

(***************************************************************************)
(* Bounds and input domains                                                *)
(***************************************************************************)
MaxRates == 2        \* most money-market rate entries in the input
MaxNav == 3          \* most points of a NAV series
MaxDist == 2         \* most distribution rows of a mutual fund

\* Local-time offsets (hours east of UTC) the script may run under.
TZOffsets == {0 - 5, 9}

\* Rate texts of the money-market file: "5.00", "3", and a non-numeric cell.
RateTexts == {<<"5", ".", "0", "0">>, <<"3">>, <<"n", "/", "a">>}

\* Dates of money-market entries.
RateDates == {US(0 - 1), US(0), US(1), ISO(0), BadDate}

\* Arrays of at most n entries over S; the inputs keep those whose entries differ pairwise.
SeqsUpTo(S, n) == UNION {[1..m -> S] : m \in 0..n}

DistinctRates(q) == \A i, j \in 1..Len(q) : i < j => q[i].rate # q[j].rate

DistinctRows(q) == \A i, j \in 1..Len(q) : i < j => q[i] # q[j]

\* allFundData.distributions[fundSymbol] for the money-market fund
MMFInputs ==
    {[kind |-> "missing", rates |-> <<>>]} \cup
    {[kind |-> "rates", rates |-> q] :
        q \in {r \in SeqsUpTo([rate : RateTexts, date : RateDates], MaxRates) :
                    DistinctRates(r)}}

\* Calendar days that may carry a NAV point, and the close quoted on each.
NavDays == (0 - 1)..2

Quote(day) ==
    CASE day = 0 - 1 -> Whole(48)
      [] day = 0 -> Whole(50)
      [] day = 1 -> Num(99, 2)
      [] OTHER -> Whole(52)

\* The instant of the daily bar of a day (14:00 UTC).
BarTime(day) == 24 * day + 14

\* A close is the day's quote, null (no value delivered) or 0.
CloseOf(day, c) == IF c = "quote" THEN Quote(day) ELSE IF c = "null" THEN Null ELSE Whole(0)

\* Chronological NAV series of at most MaxNav points, at most one of them
\* without a usable close.
NavSeries ==
    UNION {{[kind |-> "chart",
             timestamp |-> [i \in 1..m |-> BarTime(q[i])],
             close |-> [i \in 1..m |-> CloseOf(q[i], c[i])]] :
               q \in {r \in [1..m -> NavDays] : \A i, j \in 1..m : i < j => r[i] < r[j]},
               c \in {b \in [1..m -> {"quote", "null", "zero"}] :
                          \A i, j \in 1..m : b[i] # "quote" /\ b[j] # "quote" => i = j}} :
           m \in 0..MaxNav}

NavInputs ==
    {[kind |-> "missing", timestamp |-> <<>>, close |-> <<>>],
     [kind |-> "invalid", timestamp |-> <<>>, close |-> <<>>]} \cup NavSeries

\* Cells of a distribution table: amounts "1.00" and a non-numeric text.
AmountTexts == {<<"1", ".", "0", "0">>, <<"n", "/", "a">>}

DistDates == {US(0 - 1), US(0), US(1), US(2)}

Headers == <<"Record Date", "Income Dividend Regular">>

HeadersNoAmount == <<"Record Date", "Reinvest NAV">>

Row(date, amount) == ("Record Date" :> date) @@ ("Income Dividend Regular" :> amount)

RowNoAmount(date) == ("Record Date" :> date) @@ ("Reinvest NAV" :> <<"5", "0">>)

Rows == {Row(d, <<"1", ".", "0", "0">>) : d \in DistDates}
            \cup {Row(US(1), a) : a \in AmountTexts}

\* allFundData.distributions[fundSymbol] of a mutual fund: no table, a table
\* without an amount column, or a table of at most MaxDist different rows
DistInputs ==
    {[kind |-> "missing", headers |-> <<>>, distributions |-> <<>>],
     [kind |-> "table", headers |-> HeadersNoAmount,
      distributions |-> <<RowNoAmount(US(1))>>]} \cup
    {[kind |-> "table", headers |-> Headers, distributions |-> q] :
        q \in {r \in SeqsUpTo(Rows, MaxDist) : DistinctRows(r)}}

\* Data of the second fund of the holdings.
SiblingInputs ==
    {[nav |-> [kind |-> "missing", timestamp |-> <<>>, close |-> <<>>],
      dist |-> [kind |-> "missing", headers |-> <<>>, distributions |-> <<>>]],
     [nav |-> [kind |-> "chart",
               timestamp |-> <<BarTime(0), BarTime(2)>>,
               close |-> <<Quote(0), Quote(2)>>],
      dist |-> [kind |-> "table", headers |-> Headers,
                distributions |-> <<Row(US(1), <<"1", ".", "0", "0">>)>>]]}

Absent == "undefined"

VARIABLES
    call,                \* the calculator that is invoked: "mmf" or "mf"
    variant,             \* the file the calculator is taken from
    tz,                  \* local-time offset of the run
    allFundData,         \* argument allFundData
    initialUnits,        \* argument initialUnits (money market)
    initialHoldings,     \* argument initialHoldings, as Object.entries lists it
    pc,                  \* position in the invoked function
    recentRates,         \* money market: filtered, sorted rate entries
    rateIdx,             \* money market: position of the for-of loop
    currentUnits,        \* money market: running units
    accumulationDetails, \* money market: the log pushed by the loop
    mmfResult,           \* money market: the object returned
    fundIdx,             \* mutual fund: position of the loop over the holdings
    fund,                \* mutual fund: the locals of one loop iteration
    results,             \* mutual fund: results object
    totalInitialValue,
    totalCurrentValue,
    history,             \* exact values of every accumulation step, in order
    firstCall,           \* the arguments given and what an earlier call returned
    fileContent,         \* parsers: the text of a distributions file
    parsed,              \* parsers: the function applied and what it returned
    mergeArgs,           \* mergeData: arguments navData and distributionData
    mergedData,          \* mergeData: the function applied and what it returned
    dateA,               \* date comparison: first date string
    dateB,               \* date comparison: second date string
    compared,            \* date comparison: the function applied and its result
    network,             \* what each request to the outside world meets
    proxyRun,            \* fetchWithProxy: loop position, attempts made, outcome
    request              \* getFundDataByDate: arguments, position, locals, result

inputs == <<call, variant, tz, allFundData, initialUnits, initialHoldings>>
mmfVars == <<recentRates, rateIdx, currentUnits, accumulationDetails, mmfResult>>
mfVars == <<fundIdx, fund, results, totalInitialValue, totalCurrentValue>>
callVars == <<inputs, pc, mmfVars, mfVars, history>>
\* what no step of the two calculators touches
parseVars == <<fileContent, parsed>>
mergeVars == <<mergeArgs, mergedData>>
dateVars == <<dateA, dateB, compared>>
netVars == <<network, proxyRun, request>>
libVars == <<parseVars, mergeVars, dateVars, netVars>>
others == <<firstCall, libVars>>
vars == <<callVars, others>>

(***************************************************************************)
(* calculateMMFPortfolio                                                   *)
(***************************************************************************)
NAV == Whole(1)

\* distributionData of the money-market fund, undefined when missing
MMFDistributionData == allFundData.distributions["AFAXX"]

\* !distributionData || !distributionData.rates || !distributionData.rates.length
NoRates(distributionData) ==
    distributionData.kind # "rates" \/ Len(distributionData.rates) = 0

\* rate => new Date(rate.date) >= startDate
OnOrAfterStart(e, offset) == DateGeq(NewDate(e.date, offset), startDate)

\* Mutant: the filtered entries stay in the order of the input.
RecentRatesUnsorted(rates, offset) ==
    LET keep(e) == OnOrAfterStart(e, offset)
    IN  SelectSeq(rates, keep)

\* distributionData.rates.filter(...), then sorted oldest first
RecentRates(rates, offset) ==
    LET keep(e) == OnOrAfterStart(e, offset)
    IN  SortByDate(SelectSeq(rates, keep), offset)

\* The object returned when there is no distribution data.
MMFErrorResult(units) ==
    [initialUnits |-> Undefined, currentUnits |-> Undefined,
     initialValue |-> Mul(units, NAV), currentValue |-> Mul(units, NAV),
     totalReturn |-> Whole(0), percentageReturn |-> Whole(0),
     accumulationDetails |-> <<>>, hasDetails |-> FALSE,
     error |-> "No distribution data available"]

\* Mutant: the rate is divided by 100 but not by 365.
DailyRateNotPerDay(rate) == Div(ParseFloat(rate), Whole(100))

\* portfolio-calculator.js:  parseFloat(rate.rate) / 100, then / 365
DailyRateCalculator(rate) == Div(Div(ParseFloat(rate), Whole(100)), Whole(365))

\* fund-distribution-parser.js:  dailyRate = parseFloat(rate.rate)
DailyRateParser(rate) == ParseFloat(rate)

DailyRate(rate, file) ==
    IF file = "portfolio-calculator.js" THEN DailyRateCalculator(rate)
    ELSE DailyRateParser(rate)

\* distributionAmount = currentUnits * dailyRate
DistributionAmount(units, dailyRate) == Mul(units, dailyRate)

\* currentUnits += distributionAmount
Reinvest(units, amount) == Add(units, amount)

\* the entry pushed on accumulationDetails
AccumulationDetail(e, dailyRate, amount, units) ==
    [date |-> e.date, rate |-> e.rate,
     dailyRate |-> ToFixed(Mul(dailyRate, Whole(100)), 6),
     distributionAmount |-> ToFixed(amount, 6),
     runningUnits |-> ToFixed(units, 6)]

\* Mutant: the filter and the sort work on the caller's array itself.
RatesSortedInPlace(rates, recent) == recent

\* distributionData.rates after the call: filter() builds a new array, and
\* the sort that follows reorders that copy, so the caller's array keeps its
\* order and content.
RatesAfterSort(rates, recent) == rates

\* Entry of the function up to the loop: the guard, the filter and the sort.
MMFEnter ==
    /\ pc = "mmf:enter"
    /\ IF NoRates(MMFDistributionData)
       THEN /\ mmfResult' = MMFErrorResult(initialUnits)
            /\ pc' = "done"
            /\ UNCHANGED <<recentRates, currentUnits, allFundData>>
       ELSE /\ recentRates' = RecentRates(MMFDistributionData.rates, tz)
            /\ allFundData' =
                  [allFundData EXCEPT !.distributions["AFAXX"].rates =
                                          RatesAfterSort(@, RecentRates(@, tz))]
            /\ currentUnits' = initialUnits
            /\ pc' = "mmf:loop"
            /\ UNCHANGED mmfResult
    /\ rateIdx' = 1
    /\ accumulationDetails' = <<>>
    /\ UNCHANGED <<call, variant, tz, initialUnits, initialHoldings, others,
                   mfVars, history>>

\* One pass of  for (const rate of recentRates)
MMFStep ==
    /\ pc = "mmf:loop"
    /\ rateIdx <= Len(recentRates)
    /\ LET rate == recentRates[rateIdx]
           dailyRate == DailyRate(rate.rate, variant)
           distributionAmount == DistributionAmount(currentUnits, dailyRate)
           units == Reinvest(currentUnits, distributionAmount)
       IN  /\ currentUnits' = units
           /\ accumulationDetails' =
                 Append(accumulationDetails,
                        AccumulationDetail(rate, dailyRate, distributionAmount, units))
           /\ history' = Append(history,
                 [fund |-> "AFAXX", date |-> rate.date, text |-> rate.rate,
                  before |-> currentUnits, perUnit |-> dailyRate,
                  price |-> NAV, amount |-> distributionAmount, after |-> units])
    /\ rateIdx' = rateIdx + 1
    /\ UNCHANGED <<inputs, others, pc, recentRates, mmfResult, mfVars>>

\* The return values after the loop.
MMFResult(units0, units, details) ==
    LET initialValue == Mul(units0, NAV)
        currentValue == Mul(units, NAV)
        totalReturn == Sub(currentValue, initialValue)
    IN  [initialUnits |-> units0, currentUnits |-> units,
         initialValue |-> initialValue, currentValue |-> currentValue,
         totalReturn |-> totalReturn,
         percentageReturn |-> Mul(Div(totalReturn, initialValue), Whole(100)),
         accumulationDetails |-> details, hasDetails |-> TRUE,
         error |-> Absent]

MMFReturn ==
    /\ pc = "mmf:loop"
    /\ rateIdx > Len(recentRates)
    /\ mmfResult' = MMFResult(initialUnits, currentUnits, accumulationDetails)
    /\ pc' = "done"
    /\ UNCHANGED <<inputs, others, recentRates, rateIdx, currentUnits, accumulationDetails,
                   mfVars, history>>

(***************************************************************************)
(* calculateMutualFundPortfolio                                            *)
(***************************************************************************)
\* The search words a header name contains once it is lower-cased.
HeaderWords(h) ==
    CASE h = "Record Date" -> {"date"}
      [] h = "Income Dividend Regular" -> {"dividend"}
      [] OTHER -> {}

\* headers.find(h => h.toLowerCase().includes(w) for some w of words)
FindHeader(headers, words) ==
    LET hits == {i \in 1..Len(headers) : HeaderWords(headers[i]) \cap words # {}}
    IN  IF hits = {} THEN Absent
        ELSE headers[CHOOSE i \in hits : \A j \in hits : i <= j]

DateField(headers) == FindHeader(headers, {"date", "ex-div"})

AmountField(headers) == FindHeader(headers, {"distribution", "amount", "dividend"})

\* !allFundData[fundSymbol]
NoData(navData) == navData.kind = "missing"

\* !navData.timestamp || !navData.indicators?.quote?.[0]?.close
InvalidNavData(navData) == navData.kind # "chart"

\* Index of the first NAV point dated on or after d, 0 when there is none.
FirstOnOrAfter(timestamps, d) ==
    LET hits == {i \in 1..Len(timestamps) : DateGeq(DateOfTimestamp(timestamps[i]), d)}
    IN  IF hits = {} THEN 0 ELSE CHOOSE i \in hits : \A j \in hits : i <= j

\* Index of the last NAV point dated on or before d, 0 when there is none.
LastOnOrBefore(timestamps, d) ==
    LET hits == {i \in 1..Len(timestamps) : DateLeq(DateOfTimestamp(timestamps[i]), d)}
    IN  IF hits = {} THEN 0 ELSE CHOOSE i \in hits : \A j \in hits : i >= j

\* The two loops that choose initialNAV: the index chosen, 0 when initialNAV
\* stays null.  The second loop runs when the first left initialNAV null.
InitialNAVIndex(timestamps, prices) ==
    LET i == FirstOnOrAfter(timestamps, startDate)
    IN  IF i # 0 /\ prices[i] # Null THEN i
        ELSE LastOnOrBefore(timestamps, startDate)

InitialNAV(timestamps, prices) ==
    LET i == InitialNAVIndex(timestamps, prices)
    IN  IF i = 0 THEN Null ELSE prices[i]

\* prices[prices.length - 1]
CurrentNAV(prices) == IF Len(prices) = 0 THEN Undefined ELSE prices[Len(prices)]

\* The distributions dated on or after the start date.
RecentDistributions(distributionData, offset) ==
    LET dateField == DateField(distributionData.headers)
        keep(dist) == /\ dateField # Absent
                      /\ DateGeq(NewDate(dist[dateField], offset), startDate)
    IN  SelectSeq(distributionData.distributions, keep)

\* parseFloat(dist[amountField]) || 0
DistributionPerShare(text) == OrZero(ParseFloat(text))

\* Mutant: the NAV on or before the distribution date is preferred.
ReinvestmentNAVBefore(timestamps, prices, currentNAV, distDate) ==
    LET i == LastOnOrBefore(timestamps, distDate)
    IN  IF i = 0 THEN currentNAV ELSE prices[i]

\* The NAV a distribution dated distDate is reinvested at.
ReinvestmentNAV(timestamps, prices, currentNAV, distDate) ==
    LET i == FirstOnOrAfter(timestamps, distDate)
    IN  IF i = 0 THEN currentNAV ELSE prices[i]

\* Mutant: the cash is computed on the share count that already holds the
\* shares this distribution buys.
AdditionalSharesOnNewCount(perShare, shares, nav) ==
    Div(Mul(perShare, Add(shares, Div(Mul(perShare, shares), nav))), nav)

\* (distributionPerShare * currentShares) / reinvestmentNAV
AdditionalShares(perShare, shares, nav) == Div(Mul(perShare, shares), nav)

\* Mutant: the bought shares are taken off the count.
RemoveShares(shares, additional) == Sub(shares, additional)

\* currentShares += additionalShares
AddShares(shares, additional) == Add(shares, additional)

\* the entry pushed on distributionDetails; currentShares is already updated
DistributionDetail(distDate, perShare, shares, nav, additional) ==
    [date |-> distDate,
     distributionPerShare |-> ToFixed(perShare, 4),
     totalDistribution |-> ToFixed(Mul(perShare, shares), 2),
     reinvestmentNAV |-> ToFixed(nav, 2),
     additionalShares |-> ToFixed(additional, 6),
     runningShares |-> ToFixed(shares, 6)]

NoFund ==
    [symbol |-> Absent, initialShares |-> Undefined,
     timestamps |-> <<>>, prices |-> <<>>,
     initialNAV |-> Null, currentNAV |-> Undefined,
     currentShares |-> Undefined, distributions |-> <<>>, distIdx |-> 1,
     dateField |-> Absent, amountField |-> Absent,
     reinvestmentNAV |-> Undefined, additionalShares |-> Undefined,
     distributionDetails |-> <<>>]

ErrorEntry(message, symbol) ==
    [error |-> message, symbol |-> symbol,
     initialShares |-> Undefined, currentShares |-> Undefined,
     initialNAV |-> Undefined, currentNAV |-> Undefined,
     initialValue |-> Undefined, currentValue |-> Undefined,
     valueChangeFromNAV |-> Undefined, valueChangeFromDistributions |-> Undefined,
     totalReturn |-> Undefined, percentageReturn |-> Undefined,
     distributionDetails |-> <<>>]

\* Mutant: the initial NAV is not multiplied by the share count.
ValueChangeFromNAVUnscaled(initialShares, initialNAV, currentNAV) ==
    Sub(Mul(initialShares, currentNAV), initialNAV)

\* currentValueFromNAV - initialValueFromNAV
ValueChangeFromNAV(initialShares, initialNAV, currentNAV) ==
    Sub(Mul(initialShares, currentNAV), Mul(initialShares, initialNAV))

\* currentValue - currentValueFromNAV
ValueChangeFromDistributions(initialShares, currentShares, currentNAV) ==
    Sub(Mul(currentShares, currentNAV), Mul(initialShares, currentNAV))

\* results[fundSymbol] of a fund that was computed
FundEntry(f) ==
    LET currentValue == Mul(f.currentShares, f.currentNAV)
        initialValue == Mul(f.initialShares, f.initialNAV)
    IN  [error |-> Absent, symbol |-> f.symbol,
         initialShares |-> f.initialShares, currentShares |-> f.currentShares,
         initialNAV |-> f.initialNAV, currentNAV |-> f.currentNAV,
         initialValue |-> initialValue, currentValue |-> currentValue,
         valueChangeFromNAV |->
             ValueChangeFromNAV(f.initialShares, f.initialNAV, f.currentNAV),
         valueChangeFromDistributions |->
             ValueChangeFromDistributions(f.initialShares, f.currentShares, f.currentNAV),
         totalReturn |-> Sub(currentValue, initialValue),
         percentageReturn |->
             Mul(Div(Sub(currentValue, initialValue), initialValue), Whole(100)),
         distributionDetails |-> f.distributionDetails]

\* results.portfolio
PortfolioEntry(totalInitial, totalCurrent) ==
    [totalInitialValue |-> totalInitial, totalCurrentValue |-> totalCurrent,
     totalReturn |-> Sub(totalCurrent, totalInitial),
     percentageReturn |->
         Mul(Div(Sub(totalCurrent, totalInitial), totalInitial), Whole(100))]

Entry == initialHoldings[fundIdx]
NavData == allFundData.nav[Entry.symbol]
DistributionData == allFundData.distributions[Entry.symbol]

\* The loop over the holdings is at a fund that has not been looked at yet.
AtFund == pc = "mf:fund" /\ fundIdx <= Len(initialHoldings)

\* if (!allFundData[fundSymbol]) { results[fundSymbol] = {error}; continue; }
MFNoData ==
    /\ AtFund
    /\ NoData(NavData)
    /\ results' = (Entry.symbol :> ErrorEntry("No data available", Entry.symbol)) @@ results
    /\ fundIdx' = fundIdx + 1
    /\ UNCHANGED <<inputs, others, pc, mmfVars, fund, totalInitialValue, totalCurrentValue, history>>

\* if (!navData.timestamp || ...close) { results[fundSymbol] = {error}; continue; }
MFInvalidNav ==
    /\ AtFund
    /\ ~NoData(NavData)
    /\ InvalidNavData(NavData)
    /\ results' = (Entry.symbol :> ErrorEntry("Invalid NAV data", Entry.symbol)) @@ results
    /\ fundIdx' = fundIdx + 1
    /\ UNCHANGED <<inputs, others, pc, mmfVars, fund, totalInitialValue, totalCurrentValue, history>>

\* From the NAV lookup to the start of the loop over the distributions.
MFBeginFund ==
    /\ AtFund
    /\ ~NoData(NavData)
    /\ ~InvalidNavData(NavData)
    /\ LET timestamps == NavData.timestamp
           prices == NavData.close
           present == DistributionData.kind = "table"
                          /\ Len(DistributionData.distributions) > 0
           amountField == IF present THEN AmountField(DistributionData.headers)
                          ELSE Absent
       IN  fund' = [NoFund EXCEPT
                !.symbol = Entry.symbol,
                !.initialShares = Entry.shares,
                !.timestamps = timestamps,
                !.prices = prices,
                !.initialNAV = InitialNAV(timestamps, prices),
                !.currentNAV = CurrentNAV(prices),
                !.currentShares = Entry.shares,
                !.dateField = IF present THEN DateField(DistributionData.headers)
                              ELSE Absent,
                !.amountField = amountField,
                !.distributions =
                    IF present /\ amountField # Absent
                    THEN RecentDistributions(DistributionData, tz)
                    ELSE <<>>]
    /\ pc' = "mf:dist"
    /\ UNCHANGED <<inputs, others, mmfVars, fundIdx, results, totalInitialValue,
                   totalCurrentValue, history>>

\* One pass of  for (const dist of distributions)
MFReinvest ==
    /\ pc = "mf:dist"
    /\ fund.distIdx <= Len(fund.distributions)
    /\ LET dist == fund.distributions[fund.distIdx]
           distributionPerShare == DistributionPerShare(dist[fund.amountField])
           distDate == NewDate(dist[fund.dateField], tz)
           reinvestmentNAV ==
               ReinvestmentNAV(fund.timestamps, fund.prices, fund.currentNAV, distDate)
           additionalShares ==
               AdditionalShares(distributionPerShare, fund.currentShares, reinvestmentNAV)
           shares == AddShares(fund.currentShares, additionalShares)
       IN  /\ fund' = [fund EXCEPT
                  !.reinvestmentNAV = reinvestmentNAV,
                  !.additionalShares = additionalShares,
                  !.currentShares = shares,
                  !.distIdx = @ + 1,
                  !.distributionDetails =
                      IF Throws(reinvestmentNAV) THEN @
                      ELSE Append(@, DistributionDetail(distDate, distributionPerShare,
                                         shares, reinvestmentNAV, additionalShares))]
           /\ history' = Append(history,
                  [fund |-> fund.symbol, date |-> dist[fund.dateField],
                   text |-> dist[fund.amountField],
                   before |-> fund.currentShares, perUnit |-> distributionPerShare,
                   price |-> reinvestmentNAV, amount |-> additionalShares,
                   after |-> shares])
           \* reinvestmentNAV.toFixed(2) on null or undefined is a TypeError
           \* that nothing catches: the call ends without a result
           /\ pc' = IF Throws(reinvestmentNAV) THEN "thrown" ELSE pc
    /\ UNCHANGED <<inputs, others, mmfVars, fundIdx, results, totalInitialValue,
                   totalCurrentValue>>

\* After the distributions: results[fundSymbol] and the running totals.
MFStoreFund ==
    /\ pc = "mf:dist"
    /\ fund.distIdx > Len(fund.distributions)
    /\ results' = (fund.symbol :> FundEntry(fund)) @@ results
    /\ totalInitialValue' = Add(totalInitialValue, Mul(fund.initialShares, fund.initialNAV))
    /\ totalCurrentValue' = Add(totalCurrentValue, Mul(fund.currentShares, fund.currentNAV))
    /\ fundIdx' = fundIdx + 1
    /\ pc' = "mf:fund"
    /\ UNCHANGED <<inputs, others, mmfVars, fund, history>>

\* results.portfolio = {...}; return results
MFReturn ==
    /\ pc = "mf:fund"
    /\ fundIdx > Len(initialHoldings)
    /\ results' = ("portfolio" :> PortfolioEntry(totalInitialValue, totalCurrentValue))
                      @@ results
    /\ pc' = "done"
    /\ UNCHANGED <<inputs, others, mmfVars, fundIdx, fund, totalInitialValue,
                   totalCurrentValue, history>>

(***************************************************************************)
(* The calls                                                               *)
(***************************************************************************)
NoResult ==
    [initialUnits |-> Undefined, currentUnits |-> Undefined,
     initialValue |-> Undefined, currentValue |-> Undefined,
     totalReturn |-> Undefined, percentageReturn |-> Undefined,
     accumulationDetails |-> <<>>, hasDetails |-> FALSE, error |-> Absent]

Idle ==
    /\ recentRates = <<>>
    /\ rateIdx = 1
    /\ currentUnits = Undefined
    /\ accumulationDetails = <<>>
    /\ mmfResult = NoResult
    /\ fundIdx = 1
    /\ fund = NoFund
    /\ results = <<>>
    /\ totalInitialValue = Whole(0)
    /\ totalCurrentValue = Whole(0)
    /\ history = <<>>

\* calculateMMFPortfolio(allFundData, 1000, 'AFAXX') of either file
InitMMF ==
    /\ call = "mmf"
    /\ variant \in {"portfolio-calculator.js", "fund-distribution-parser.js"}
    /\ \E d \in MMFInputs :
          allFundData = [nav |-> <<>>, distributions |-> ("AFAXX" :> d)]
    /\ initialUnits = Whole(1000)
    /\ initialHoldings = <<>>
    /\ pc = "mmf:enter"

\* calculateMutualFundPortfolio(allFundData, {AGTHX: 100, ANCFX: 10}); the
\* function is the same text in both files
InitMF ==
    /\ call = "mf"
    /\ variant = "portfolio-calculator.js"
    /\ \E n \in NavInputs, d \in DistInputs, s \in SiblingInputs :
          allFundData =
              [nav |-> ("AGTHX" :> n) @@ ("ANCFX" :> s.nav),
               distributions |-> ("AGTHX" :> d) @@ ("ANCFX" :> s.dist)]
    /\ initialUnits = Undefined
    /\ initialHoldings = <<[symbol |-> "AGTHX", shares |-> Whole(100)],
                           [symbol |-> "ANCFX", shares |-> Whole(10)]>>
    /\ pc = "mf:fund"

\* No earlier call has been made.
NoFirstCall ==
    [made |-> FALSE, order |-> "none", args |-> <<>>, outcome |-> "none",
     mmfResult |-> NoResult, results |-> <<>>, history |-> <<>>]

\* No file has been read and no parser has run.
NoFile == [symbol |-> "none", header |-> <<>>, rows |-> <<>>]
NotParsed == [by |-> "none", shape |-> "none", fundData |-> <<>>, keyed |-> <<>>,
              taken |-> <<>>]

NotMerged == [by |-> "none", data |-> <<>>]
NoDate == <<>>
NotCompared == [by |-> "none", result |-> "none"]

\* The other parts of the repository are not in use.
ParsersIdle == fileContent = NoFile /\ parsed = NotParsed
NoMergeArgs == [file |-> "none", navData |-> <<>>, distributionData |-> <<>>]
MergeIdle == mergeArgs = NoMergeArgs /\ mergedData = NotMerged
DatesIdle == dateA = NoDate /\ dateB = NoDate /\ compared = NotCompared

\* No request is made to the outside world.
NoNetwork == <<>>
NoProxyRun == [proxyIndex |-> 0, attempts |-> <<>>, outcome |-> "none", value |-> "none"]
NoRequest == [file |-> "none", pc |-> "idle"]
NetIdle == network = NoNetwork /\ proxyRun = NoProxyRun /\ request = NoRequest

OthersIdle == ParsersIdle /\ MergeIdle /\ DatesIdle /\ NetIdle

Init ==
    /\ tz \in TZOffsets
    /\ InitMMF \/ InitMF
    /\ Idle
    /\ firstCall = NoFirstCall
    /\ OthersIdle

Next ==
    \/ MMFEnter
    \/ MMFStep
    \/ MMFReturn
    \/ MFNoData
    \/ MFInvalidNav
    \/ MFBeginFund
    \/ MFReinvest
    \/ MFStoreFund
    \/ MFReturn

Spec == Init /\ [][Next]_vars

(***************************************************************************)
(* Properties                                                              *)
(***************************************************************************)
Calculator == "portfolio-calculator.js"

\* The steps recorded for one fund, in order.
StepsOf(symbol) ==
    LET mine(h) == h.fund = symbol
    IN  SelectSeq(history, mine)

\* Every step starts from the count the step before it ended with.
Chained(steps, initial) ==
    \A i \in 1..Len(steps) :
        steps[i].before = IF i = 1 THEN initial ELSE steps[i - 1].after

Fixed(ip, fp) == [k |-> "dec", neg |-> FALSE, ip |-> ip, fp |-> fp]

\* One money-market step as the file `file` is said to compute it.
MMFStepAsIn(h, file) ==
    LET rate == ParseFloat(h.text)
        daily == IF file = Calculator THEN Div(Div(rate, Whole(100)), Whole(365))
                 ELSE rate
    IN  /\ h.perUnit = daily
        /\ h.amount = Mul(h.before, daily)
        /\ h.after = Add(h.before, Mul(h.before, daily))

\* C1 (as stated): in every calculateMMFPortfolio of the repository each
\* entry is processed with dailyRate = rate / 100 / 365, distributionAmount =
\* units before * dailyRate and units after = units before + distributionAmount.
C1_EveryFileDividesRate ==
    call = "mmf" => \A i \in 1..Len(history) : MMFStepAsIn(history[i], Calculator)

\* C1 (amended): calculateMMFPortfolio of portfolio-calculator.js processes
\* each entry with dailyRate = rate / 100 / 365, distributionAmount = units
\* before * dailyRate, units after = units before + distributionAmount (1000
\* units and rate 5.00 give 1000*5/36500, logged as 0.136986 and 1000.136986);
\* calculateMMFPortfolio of fund-distribution-parser.js takes the parsed rate
\* itself as dailyRate and compounds in the same way.
C1_MMFAccumulation ==
    call = "mmf" =>
        /\ Len(accumulationDetails) = Len(history)
        /\ Chained(history, initialUnits)
        /\ Len(history) > 0 => currentUnits = history[Len(history)].after
        /\ \A i \in 1..Len(history) :
              /\ MMFStepAsIn(history[i], variant)
              /\ accumulationDetails[i].distributionAmount = ToFixed(history[i].amount, 6)
              /\ accumulationDetails[i].runningUnits = ToFixed(history[i].after, 6)
              /\ (variant = Calculator /\ history[i].before = Whole(1000)
                     /\ history[i].text = <<"5", ".", "0", "0">>) =>
                    /\ history[i].amount = Num(1000 * 5, 36500)
                    /\ accumulationDetails[i].distributionAmount = Fixed(0, 136986)
                    /\ accumulationDetails[i].runningUnits = Fixed(1000, 136986)

\* C1 witness: portfolio-calculator.js has processed rate 5.00 on 1000 units
\* and a second entry after it.
C1_Witness ==
    /\ call = "mmf" /\ variant = Calculator /\ pc = "done"
    /\ Len(history) = 2
    /\ history[1].before = Whole(1000)
    /\ history[1].text = <<"5", ".", "0", "0">>
    /\ history[2].text = <<"3">>

\* C2: every distribution calculateMutualFundPortfolio processes buys
\* distributionPerShare * (shares before it) / reinvestmentNAV shares, and the
\* count after it is the count before it plus those shares; the count before
\* it is the count the previous distribution of the fund left (the initial
\* shares for the first).
C2_MutualFundAccumulation ==
    call = "mf" =>
        /\ \A i \in 1..Len(history) :
              /\ history[i].amount =
                    Div(Mul(history[i].perUnit, history[i].before), history[i].price)
              /\ history[i].after = Add(history[i].before, history[i].amount)
        /\ \A e \in {initialHoldings[i] : i \in 1..Len(initialHoldings)} :
              Chained(StepsOf(e.symbol), e.shares)
        /\ (pc = "mf:dist" /\ StepsOf(fund.symbol) # <<>>) =>
              fund.currentShares = StepsOf(fund.symbol)[Len(StepsOf(fund.symbol))].after

\* C2 witness: a fund has had two distributions reinvested, each of which
\* changed the share count.
C2_Witness ==
    /\ call = "mf" /\ pc = "mf:dist"
    /\ Len(StepsOf(fund.symbol)) = 2
    /\ \A i \in 1..2 : /\ IsFinite(StepsOf(fund.symbol)[i].after)
                       /\ StepsOf(fund.symbol)[i].after # StepsOf(fund.symbol)[i].before

\* A step with a non-negative amount (rate) and a positive NAV.
Growing(h) ==
    /\ IsFinite(h.perUnit) /\ h.perUnit.n >= 0
    /\ IsFinite(h.price) /\ h.price.n > 0

\* C3: as long as every distribution processed so far had a non-negative
\* amount (rate) and a positive NAV, the count after each step is >= the count
\* before it, and so the running count is >= the initial count.
C3_MonotoneGrowth ==
    \A symbol \in {"AFAXX", "AGTHX", "ANCFX"} :
        LET steps == StepsOf(symbol)
        IN  \A i \in 1..Len(steps) :
                (\A j \in 1..i : Growing(steps[j])) =>
                    /\ Geq(steps[i].after, steps[i].before)
                    /\ Geq(steps[i].after, steps[1].before)

\* C3 witness: two steps with positive amounts, in either calculator.
C3_Witness ==
    /\ pc = "done"
    /\ \E symbol \in {"AFAXX", "AGTHX"} :
          /\ Len(StepsOf(symbol)) = 2
          /\ \A j \in 1..2 : Growing(StepsOf(symbol)[j]) /\ StepsOf(symbol)[j].perUnit.n > 0

\* The NAV series of a fund as (date, NAV) points.
NavTimes(symbol) == allFundData.nav[symbol].timestamp
NavCloses(symbol) == allFundData.nav[symbol].close

\* C4: the reinvestment NAV of a distribution is the NAV of the first point
\* of the series dated >= the distribution date; when there is none, the NAV
\* of the latest point dated <= the distribution date (with no point at all
\* there is no known NAV to speak of).
C4_ReinvestmentNAV ==
    call = "mf" =>
        \A k \in 1..Len(history) :
            LET h == history[k]
                T == NavTimes(h.fund)
                P == NavCloses(h.fund)
                d == NewDate(h.date, tz).t
                after == {i \in 1..Len(T) : T[i] >= d}
                upto == {i \in 1..Len(T) : T[i] <= d}
            IN  /\ after # {} =>
                      \E i \in after : (\A j \in after : i <= j) /\ h.price = P[i]
                /\ (after = {} /\ upto # {}) =>
                      \E i \in upto : (\A j \in upto : T[j] <= T[i]) /\ h.price = P[i]

\* C4 witness: one distribution found a NAV point after its date although an
\* earlier point exists, another found none after its date.
C4_Witness ==
    /\ call = "mf"
    /\ \E k, l \in 1..Len(history) :
          LET T == NavTimes(history[k].fund)
              d == NewDate(history[k].date, tz).t
              e == NewDate(history[l].date, tz).t
          IN  /\ history[k].fund = history[l].fund
              /\ \E i, j \in 1..Len(T) : T[i] < d /\ T[j] >= d
              /\ Len(T) > 1
              /\ \A j \in 1..Len(T) : T[j] < e

Holdings == {initialHoldings[i] : i \in 1..Len(initialHoldings)}

\* The running count of a fund after the steps recorded for it.
CountAfterSteps(symbol, initial) ==
    LET steps == StepsOf(symbol)
    IN  IF steps = <<>> THEN initial ELSE steps[Len(steps)].after

C6_ValueAttribution ==
    call = "mf" =>
        \A e \in Holdings :
            (e.symbol \in DOMAIN results /\ results[e.symbol].error = Absent) =>
                LET r == results[e.symbol]
                    P == NavCloses(e.symbol)
                    mostRecentNAV == IF P = <<>> THEN Undefined ELSE P[Len(P)]
                    steps == StepsOf(e.symbol)
                IN  /\ r.initialShares = e.shares
                    /\ r.currentShares = CountAfterSteps(e.symbol, e.shares)
                    /\ r.currentValue = Mul(r.currentShares, mostRecentNAV)
                    /\ r.valueChangeFromNAV =
                           Mul(e.shares, Sub(mostRecentNAV, r.initialNAV))
                    /\ r.valueChangeFromDistributions =
                           Sub(r.currentValue, Mul(e.shares, mostRecentNAV))
                    /\ (/\ e.shares = Whole(100) /\ r.initialNAV = Whole(50)
                        /\ mostRecentNAV = Whole(52) /\ Len(steps) = 1
                        /\ steps[1].perUnit = Whole(1) /\ steps[1].price = Num(99, 2)) =>
                           /\ r.valueChangeFromNAV = Whole(200)
                           /\ ToFixed(r.currentValue, 2) = Fixed(5305, 5)
                           /\ ToFixed(r.valueChangeFromDistributions, 2) = Fixed(105, 5)

\* C6 witness: the example has been computed and stored.
C6_Witness ==
    /\ call = "mf" /\ "AGTHX" \in DOMAIN results
    /\ results["AGTHX"].error = Absent
    /\ results["AGTHX"].initialNAV = Whole(50)
    /\ results["AGTHX"].currentNAV = Whole(52)
    /\ Len(StepsOf("AGTHX")) = 1
    /\ StepsOf("AGTHX")[1].perUnit = Whole(1)
    /\ StepsOf("AGTHX")[1].price = Num(99, 2)

\* The series a fund's computation needs is missing or holds no point.
NoSeries(symbol) ==
    \/ allFundData.nav[symbol].kind # "chart"
    \/ Len(allFundData.nav[symbol].timestamp) = 0

\* C7 (as stated): when the NAV series of a mutual fund or the distribution
\* series of the money-market fund is missing or empty, the call raises no
\* exception and the fund's result carries an error and percentageReturn = 0.
C7_MissingSeries ==
    pc \in {"done", "thrown"} =>
        /\ (call = "mmf" /\ Len(allFundData.distributions["AFAXX"].rates) = 0) =>
              /\ mmfResult.error # Absent
              /\ mmfResult.percentageReturn = Whole(0)
        /\ call = "mf" =>
              \A e \in Holdings :
                  NoSeries(e.symbol) =>
                      /\ pc # "thrown"
                      /\ e.symbol \in DOMAIN results
                      /\ results[e.symbol].error # Absent
                      /\ results[e.symbol].percentageReturn = Whole(0)

\* The distributions of one fund reinvested in order, from the given count.
RECURSIVE ReinvestAll(_, _, _, _)
ReinvestAll(dists, shares, symbol, fields) ==
    IF dists = <<>> THEN shares
    ELSE LET perShare == DistributionPerShare(Head(dists)[fields.amount])
             nav == ReinvestmentNAV(NavTimes(symbol), NavCloses(symbol),
                                    CurrentNAV(NavCloses(symbol)),
                                    NewDate(Head(dists)[fields.date], tz))
         IN  ReinvestAll(Tail(dists),
                         AddShares(shares, AdditionalShares(perShare, shares, nav)),
                         symbol, fields)

\* The final share count of a fund computed from that fund's data alone.
SharesAlone(symbol, shares) ==
    LET data == allFundData.distributions[symbol]
        fields == [date |-> DateField(data.headers), amount |-> AmountField(data.headers)]
    IN  IF data.kind = "table" /\ fields.amount # Absent
        THEN ReinvestAll(RecentDistributions(data, tz), shares, symbol, fields)
        ELSE shares

\* C8 (as stated): whatever happens to one fund, the call returns, every
\* requested fund has an entry in the result, an entry with an error for a
\* fund without usable NAV data, and the figures of a computed fund are those
\* its own data give.
C8_SiblingIsolation ==
    (call = "mf" /\ pc \in {"done", "thrown"}) =>
        /\ pc = "done"
        /\ \A e \in Holdings :
              /\ e.symbol \in DOMAIN results
              /\ results[e.symbol].error = Absent =>
                    results[e.symbol].currentShares = SharesAlone(e.symbol, e.shares)

\* A NAV that a distribution can be reinvested at.
Usable(price) == IsFinite(price) /\ price.n > 0

\* C9 (as stated): an amount or rate that does not parse as a number counts
\* as a zero distribution: the running count is unchanged by that event and
\* stays a number.  (Stated for events reinvested at a usable NAV.)
C9_NonNumericIsZero ==
    \A i \in 1..Len(history) :
        (/\ IsNaN(ParseFloat(history[i].text))
         /\ IsFinite(history[i].before)
         /\ Usable(history[i].price)) =>
            /\ history[i].after = history[i].before
            /\ IsFinite(history[i].after)

\* C10 (as stated): no distribution is reinvested against a NAV that is
\* null, missing or zero: the call raises no exception, the share count stays
\* a finite number and such a distribution leaves it unchanged.
C10_NoInvalidPrice ==
    call = "mf" =>
        /\ pc # "thrown"
        /\ \A i \in 1..Len(history) :
              /\ history[i].after.k \notin {"inf", "nan"}
              /\ ~Usable(history[i].price) => history[i].after = history[i].before

(***************************************************************************)
(* Date filters, order and repetition of the calls                         *)
(***************************************************************************)
\* The date shapes the records may be written in.
AcceptedShapes == {"MM/DD/YY", "MM/DD/YYYY", "YYYY-MM-DD"}

\* The array arr has an element equal to e.
Holds(arr, e) == \E j \in 1..Len(arr) : arr[j] = e

\* C11: in the date filters of calculateMMFPortfolio and
\* calculateMutualFundPortfolio a record dated exactly on the start date
\* (day 0) is kept and a record dated the day before (day -1) is dropped,
\* in whichever accepted shape its date is written.
C11_StartDateBoundary ==
    /\ (call = "mmf" /\ pc \in {"mmf:loop", "done"} /\ ~NoRates(MMFDistributionData)) =>
          \A i \in 1..Len(MMFDistributionData.rates) :
              LET e == MMFDistributionData.rates[i]
              IN  e.date.shape \in AcceptedShapes =>
                     /\ e.date.day = 0 => Holds(recentRates, e)
                     /\ e.date.day = 0 - 1 => ~Holds(recentRates, e)
    /\ (call = "mf" /\ pc = "mf:dist" /\ fund.dateField # Absent
           /\ fund.amountField # Absent) =>
          \A i \in 1..Len(allFundData.distributions[fund.symbol].distributions) :
              LET row == allFundData.distributions[fund.symbol].distributions[i]
              IN  row[fund.dateField].shape \in AcceptedShapes =>
                     /\ row[fund.dateField].day = 0 => Holds(fund.distributions, row)
                     /\ row[fund.dateField].day = 0 - 1 =>
                            ~Holds(fund.distributions, row)


\* arr in the opposite order
Reverse(arr) == [i \in 1..Len(arr) |-> arr[Len(arr) + 1 - i]]

\* The call has ended: it returned, or an exception left it.
Returned == pc \in {"done", "thrown"}

\* What the call that has ended is remembered by.
Remembered(order) ==
    [made |-> TRUE, order |-> order, args |-> firstCall.args, outcome |-> pc,
     mmfResult |-> mmfResult, results |-> results, history |-> history]

\* A new activation of the function: every local is declared anew
\* (let currentUnits, const accumulationDetails = [], const results = {},
\* let totalInitialValue = 0, ...).
FreshCall ==
    /\ recentRates' = <<>>
    /\ rateIdx' = 1
    /\ currentUnits' = Undefined
    /\ accumulationDetails' = <<>>
    /\ mmfResult' = NoResult
    /\ fundIdx' = 1
    /\ fund' = NoFund
    /\ results' = <<>>
    /\ totalInitialValue' = Whole(0)
    /\ totalCurrentValue' = Whole(0)
    /\ history' = <<>>
    /\ pc' = IF call = "mmf" THEN "mmf:enter" ELSE "mf:fund"

\* The caller invokes the calculator once more with the objects it passed
\* the first time.
CallAgain ==
    /\ Returned
    /\ ~firstCall.made
    /\ firstCall' = Remembered("same")
    /\ FreshCall
    /\ UNCHANGED <<inputs, libVars>>

\* The caller invokes calculateMMFPortfolio once more, the rate entries
\* now listed in the opposite order.
CallReordered ==
    /\ Returned
    /\ ~firstCall.made
    /\ call = "mmf"
    /\ Len(MMFDistributionData.rates) >= 2
    /\ firstCall' = Remembered("reversed")
    /\ allFundData' = [allFundData EXCEPT !.distributions["AFAXX"].rates = Reverse(@)]
    /\ FreshCall
    /\ UNCHANGED <<call, variant, tz, initialUnits, initialHoldings, libVars>>

InitAgain ==
    /\ tz \in TZOffsets
    /\ InitMMF \/ InitMF
    /\ Idle
    /\ firstCall = [NoFirstCall EXCEPT !.args = allFundData]
    /\ OthersIdle

NextAgain ==
    \/ MMFEnter
    \/ MMFStep
    \/ MMFReturn
    \/ MFNoData
    \/ MFInvalidNav
    \/ MFBeginFund
    \/ MFReinvest
    \/ MFStoreFund
    \/ MFReturn
    \/ CallAgain
    \/ CallReordered

\* A calculator called, and then called a second time.
SpecAgain == InitAgain /\ [][NextAgain]_vars

\* The recurrence of the money-market loop applied to the entries in the
\* order given, without any sorting.
RECURSIVE Compound(_, _, _)
Compound(units, rates, file) ==
    IF rates = <<>> THEN units
    ELSE LET amount == DistributionAmount(units, DailyRate(Head(rates).rate, file))
         IN  Compound(Reinvest(units, amount), Tail(rates), file)

\* No two entries of the array fall on the same instant.
DistinctInstants(arr) ==
    \A i, j \in 1..Len(arr) : i < j => TimeOf(arr[i], tz) # TimeOf(arr[j], tz)

\* The second call was given the reversed entries and has returned.
ReorderedDone == firstCall.made /\ firstCall.order = "reversed" /\ pc = "done"

\* Two entries are processed, with distinct dates and two different numbers
\* as rates.
TwoDifferentRates ==
    /\ Len(recentRates) = 2
    /\ DistinctInstants(recentRates)
    /\ IsFinite(ParseFloat(recentRates[1].rate))
    /\ IsFinite(ParseFloat(recentRates[2].rate))
    /\ ParseFloat(recentRates[1].rate) # ParseFloat(recentRates[2].rate)

\* C12 as stated: two entries with distinct dates and different rates give
\* different final units when they are applied in the opposite order.
C12_OrderChangesResult ==
    (ReorderedDone /\ TwoDifferentRates) =>
        /\ mmfResult.currentUnits # firstCall.mmfResult.currentUnits
        /\ Compound(initialUnits, Reverse(recentRates), variant) # mmfResult.currentUnits

\* C12, amended: calculateMMFPortfolio sorts the entries by date, so for
\* entries with distinct dates the call on the reversed input returns the
\* same steps and the same final units; and the recurrence applied to the
\* entries in the opposite order ends at the same final units, only the
\* amounts of the single steps differ.
C12_OrderIndependentResult ==
    /\ (call = "mmf" /\ pc = "done" /\ mmfResult.hasDetails) =>
          Compound(initialUnits, Reverse(recentRates), variant) = mmfResult.currentUnits
    /\ (ReorderedDone /\ DistinctInstants(recentRates)) =>
          /\ mmfResult = firstCall.mmfResult
          /\ history = firstCall.history

C12_Witness ==
    /\ ReorderedDone
    /\ TwoDifferentRates
    /\ MMFDistributionData.rates # recentRates
    /\ history[1].amount # history[2].amount

\* C13: a second call with the same input gives the same steps and the same
\* result as the first, and the calls leave the input data as it was given.
C13_Idempotent ==
    /\ firstCall.order # "reversed" => allFundData = firstCall.args
    /\ (firstCall.made /\ firstCall.order = "same" /\ Returned) =>
          /\ pc = firstCall.outcome
          /\ mmfResult = firstCall.mmfResult
          /\ results = firstCall.results
          /\ history = firstCall.history

C13_Witness ==
    /\ firstCall.made
    /\ firstCall.order = "same"
    /\ pc = "done"
    /\ call = "mmf"
    /\ Len(history) = 2
    /\ recentRates # MMFDistributionData.rates


(***************************************************************************)
(* Text.  A string is the tuple of its characters; a name whose characters *)
(* are never looked at (a fund symbol, a column title) is a single item.   *)
(* A line is the tuple of its tab-separated fields.                        *)
(***************************************************************************)
\* s.includes(c)
Includes(s, c) == \E i \in 1..Len(s) : s[i] = c

\* position of the first c in s (s includes c)
IndexOf(s, c) == CHOOSE i \in 1..Len(s) : s[i] = c /\ \A j \in 1..(i - 1) : s[j] # c

\* s.split(sep)
RECURSIVE Split(_, _)
Split(s, sep) ==
    IF ~Includes(s, sep) THEN <<s>>
    ELSE LET i == IndexOf(s, sep)
         IN  <<SubSeq(s, 1, i - 1)>> \o Split(SubSeq(s, i + 1, Len(s)), sep)

\* parts.join(sep)
RECURSIVE Join(_, _)
Join(parts, sep) ==
    IF Len(parts) = 0 THEN <<>>
    ELSE IF Len(parts) = 1 THEN parts[1]
    ELSE parts[1] \o <<sep>> \o Join(Tail(parts), sep)

\* `${parts[i]}` : the text of an element, "undefined" past the end
Part(parts, i) == IF i <= Len(parts) THEN parts[i] ELSE <<"undefined">>

\* s.replace('$', ''): the first "$" is taken out
StripDollar(s) ==
    IF ~Includes(s, "$") THEN s
    ELSE LET i == IndexOf(s, "$")
         IN  SubSeq(s, 1, i - 1) \o SubSeq(s, i + 1, Len(s))

\* line.trim() on a line of fields: tabs are white space, so empty fields
\* at either end go.
RECURSIVE TrimEnd(_)
TrimEnd(line) ==
    IF Len(line) > 0 /\ line[Len(line)] = <<>>
    THEN TrimEnd(SubSeq(line, 1, Len(line) - 1)) ELSE line

RECURSIVE TrimStart(_)
TrimStart(line) ==
    IF Len(line) > 0 /\ line[1] = <<>> THEN TrimStart(Tail(line)) ELSE line

Trim(line) == TrimStart(TrimEnd(line))

\* fund-data-service.js normalizeDate
normalizeDate(dateStr) ==
    IF Includes(dateStr, "/") \/ Includes(dateStr, "-")
    THEN LET separator == IF Includes(dateStr, "/") THEN "/" ELSE "-"
             parts == Split(dateStr, separator)
             year == IF Len(parts) >= 3 /\ Len(parts[3]) = 2
                     THEN <<"2", "0">> \o parts[3]
                     ELSE Part(parts, 3)
         IN  Part(parts, 1) \o <<"/">> \o Part(parts, 2) \o <<"/">> \o year
    ELSE dateStr

\* fund-data-processor.js parseDate.  parts[2].length is a TypeError for a
\* slash date of fewer than three parts; such dates are not among the inputs.
parseDate(dateStr) ==
    IF Includes(dateStr, "/")
    THEN LET parts == Split(dateStr, "/")
         IN  IF Len(parts) < 3 THEN <<"TypeError">>
             ELSE IF Len(parts[3]) = 2
                  THEN Join([parts EXCEPT ![3] = <<"2", "0">> \o @], "/")
                  ELSE Join(parts, "/")
    ELSE IF Includes(dateStr, "-")
         THEN LET parts == Split(dateStr, "-")
              IN  Part(parts, 1) \o <<"/">> \o Part(parts, 2) \o <<"/">> \o Part(parts, 3)
         ELSE dateStr


(***************************************************************************)
(* The parsers of the distribution files                                   *)
(***************************************************************************)
MutualFunds == {"ANCFX", "AGTHX"}
Funds == MutualFunds \cup {"AFAXX"}

\* a + b + c + d, added from the left as the code does
Sum4(a, b, c, d) == Add(Add(Add(a, b), c), d)

\* The positions of the lines that are left after  filter(line => line.trim())
\* and slice(1): every non-blank line but the first.
DataLines(lines) ==
    LET filled(i) == Trim(lines[i]) # <<>>
        kept == SelectSeq([i \in 1..Len(lines) |-> i], filled)
    IN  IF Len(kept) > 1 THEN Tail(kept) ELSE <<>>

\* parseFloat(text.replace('$', '')) || 0      (fund-data-service.js)
ServiceAmount(text) == OrZero(ParseFloat(StripDollar(text)))

\* parseFloat(text.replace('$', '') || 0)      (fund-data-processor.js):
\* only the empty text is replaced, by the number 0
ProcessorAmount(text) ==
    LET stripped == StripDollar(text)
    IN  ParseFloat(IF stripped = <<>> THEN <<"0">> ELSE stripped)

\* The record a processMutualFundDistributions stores for one line (detail is
\* named distributionDetails in fund-data-processor.js).
FundRecord(date, regular, special, long, short, nav) ==
    [date |-> date, NAV |-> nav,
     distributions |-> Sum4(regular, special, long, short),
     detail |-> [regularDividend |-> regular, specialDividend |-> special,
                 longTermGains |-> long, shortTermGains |-> short]]

ServiceFundRecord(parts) ==
    FundRecord(normalizeDate(parts[1]), ServiceAmount(parts[4]),
               ServiceAmount(parts[5]), ServiceAmount(parts[6]),
               ServiceAmount(parts[7]), ServiceAmount(parts[8]))

ProcessorFundRecord(parts) ==
    FundRecord(parseDate(parts[1]), ProcessorAmount(parts[4]),
               ProcessorAmount(parts[5]), ProcessorAmount(parts[6]),
               ProcessorAmount(parts[7]), ProcessorAmount(parts[8]))

\* The record a processMMFDistributions stores for one line; file names the
\* date normalizer.
RateRecord(parts, file) ==
    LET rate == OrZero(ParseFloat(parts[1]))
    IN  [date |-> IF file = "fund-data-service.js" THEN normalizeDate(parts[2])
                  ELSE parseDate(parts[2]),
         NAV |-> Whole(1), distributions |-> rate, detail |-> [dailyRate |-> rate]]

\* parts.length >= 8  and  parts.length >= 2
FundLineAccepted(parts) == Len(parts) >= 8
RateLineAccepted(parts) == Len(parts) >= 2

\* dataLines.forEach(...) of the four process... functions: the object
\* keyed by date, and the positions of the lines that were stored.
RECURSIVE ProcessLines(_, _, _, _, _)
ProcessLines(lines, todo, kind, file, acc) ==
    IF todo = <<>> THEN acc
    ELSE LET parts == Trim(lines[Head(todo)])
             ok == IF kind = "fund" THEN FundLineAccepted(parts)
                   ELSE RateLineAccepted(parts)
             rec == CASE kind = "fund" /\ file = "fund-data-service.js" ->
                             ServiceFundRecord(parts)
                      [] kind = "fund" /\ file # "fund-data-service.js" ->
                             ProcessorFundRecord(parts)
                      [] OTHER -> RateRecord(parts, file)
         IN  ProcessLines(lines, Tail(todo), kind, file,
                 IF ok
                 THEN [acc EXCEPT !.keyed = (rec.date :> rec) @@ @,
                                  !.taken = Append(@, Head(todo))]
                 ELSE acc)

processDistributions(lines, kind, file) ==
    ProcessLines(lines, DataLines(lines), kind, file,
                 [NotParsed EXCEPT !.by = file, !.shape = "keyed"])


\* rowObj / rowMap: headers.forEach((header, index) => row[header] = values[index]);
\* of two columns with one title the later one stays
RowObject(headers, values) ==
    [h \in {headers[i] : i \in 1..Len(headers)} |->
        values[CHOOSE i \in 1..Len(headers) :
                  headers[i] = h /\ \A j \in (i + 1)..Len(headers) : headers[j] # h]]

\* rowMap[title]; the text "undefined" stands for a missing column
Column(rowMap, title) ==
    IF <<title>> \in DOMAIN rowMap THEN rowMap[<<title>>] ELSE <<"undefined">>

\* values.length === headers.length  and  values.length === 2
RowAccepted(values, headers) == Len(values) = Len(headers)
PairAccepted(values) == Len(values) = 2

\* const fundData = {ANCFX: {...}, AGTHX: {...}, AFAXX: {...}}
EmptyFundData ==
    [f \in Funds |->
        IF f \in MutualFunds THEN [distributions |-> <<>>, headers |-> <<>>]
        ELSE [rates |-> <<>>]]

EmptySimplifiedFundData == [f \in Funds |-> [distributions |-> <<>>]]

\* What parseSimplifiedDistributionData pushes for a mutual-fund row.
SimplifiedRow(rowMap) ==
    LET incomeRegular == OrZero(ParseFloat(Column(rowMap, "Income Dividend Regular")))
        incomeSpecial == OrZero(ParseFloat(Column(rowMap, "Income Dividend Special")))
        capGainsLong == OrZero(ParseFloat(Column(rowMap, "Cap. Gains Long-Term")))
        capGainsShort == OrZero(ParseFloat(Column(rowMap, "Cap. Gains Short-Term")))
    IN  ("Distribution Date" :> Column(rowMap, "Calculated Date")) @@
        ("Reinvest NAV" :> OrZero(ParseFloat(Column(rowMap, "Reinvest NAV")))) @@
        ("Total Distributions" :>
             Sum4(incomeRegular, incomeSpecial, capGainsLong, capGainsShort))

\* What parseSimplifiedDistributionData pushes for a money-market row.
SimplifiedRate(values) ==
    ("Distribution Date" :> values[2]) @@
    ("Reinvest NAV" :> Whole(1)) @@
    ("Total Distributions" :> OrZero(ParseFloat(values[1])))

\* One pass of the loop over the lines of parseDistributionData
\* (simplified = FALSE) and of parseSimplifiedDistributionData (TRUE).
ParseLine(st, raw, pos, simplified) ==
    LET line == Trim(raw)
        fundLine == Len(line) = 1 /\ \E f \in Funds : line[1] = <<f>>
    IN  CASE line = <<>> -> st
          [] line # <<>> /\ fundLine ->
                [st EXCEPT !.currentFund = CHOOSE f \in Funds : line[1] = <<f>>,
                           !.isHeader = TRUE]
          [] line # <<>> /\ ~fundLine /\ st.isHeader ->
                [st EXCEPT !.headers = line,
                           !.isHeader = FALSE,
                           !.fundData =
                               IF ~simplified /\ st.currentFund \in MutualFunds
                               THEN [@ EXCEPT ![st.currentFund].headers = line]
                               ELSE @]
          [] OTHER ->
                IF st.currentFund \in MutualFunds /\ RowAccepted(line, st.headers)
                THEN [st EXCEPT
                        !.fundData[st.currentFund].distributions =
                            Append(@, IF simplified
                                      THEN SimplifiedRow(RowObject(st.headers, line))
                                      ELSE RowObject(st.headers, line)),
                        !.taken = Append(@, pos)]
                ELSE IF st.currentFund = "AFAXX" /\ PairAccepted(line)
                THEN IF simplified
                     THEN [st EXCEPT
                             !.fundData["AFAXX"].distributions =
                                 Append(@, SimplifiedRate(line)),
                             !.taken = Append(@, pos)]
                     ELSE [st EXCEPT
                             !.fundData["AFAXX"].rates =
                                 Append(@, [rate |-> line[1], date |-> line[2]]),
                             !.taken = Append(@, pos)]
                ELSE st

RECURSIVE ParseLines(_, _, _, _)
ParseLines(lines, pos, simplified, st) ==
    IF pos > Len(lines) THEN st
    ELSE ParseLines(lines, pos + 1, simplified,
                    ParseLine(st, lines[pos], pos, simplified))

\* let currentFund = null; let isHeader = false; let headers = []
ParserStart(fundData) ==
    [currentFund |-> "null", isHeader |-> FALSE, headers |-> <<>>,
     fundData |-> fundData, taken |-> <<>>]

parseDistributionData(lines) ==
    LET st == ParseLines(lines, 1, FALSE, ParserStart(EmptyFundData))
    IN  [NotParsed EXCEPT !.by = "parseDistributionData", !.shape = "lists",
                          !.fundData = st.fundData, !.taken = st.taken]

parseSimplifiedDistributionData(lines) ==
    LET st == ParseLines(lines, 1, TRUE, ParserStart(EmptySimplifiedFundData))
    IN  [NotParsed EXCEPT !.by = "parseSimplifiedDistributionData", !.shape = "lists",
                          !.fundData = st.fundData, !.taken = st.taken]


\* No calculator is called.
CalculatorsIdle ==
    /\ call = "none"
    /\ variant = "none"
    /\ tz = 0
    /\ allFundData = <<>>
    /\ initialUnits = Undefined
    /\ initialHoldings = <<>>
    /\ pc = "idle"
    /\ Idle
    /\ firstCall = NoFirstCall

MaxLines == 2        \* most data lines of a distributions file

\* Cell texts: "0.25", "1.50", "$0.25", "n/a", "50.00", "5.00", "3"
Text025 == <<"0", ".", "2", "5">>
Text150 == <<"1", ".", "5", "0">>
TextDollar025 == <<"$", "0", ".", "2", "5">>
TextNA == <<"n", "/", "a">>
Text5000 == <<"5", "0", ".", "0", "0">>
Text500 == <<"5", ".", "0", "0">>
Text3 == <<"3">>

\* Date texts: "12/30/24", "12/30/2024", "12/31/24"
Text123024 == <<"1", "2", "/", "3", "0", "/", "2", "4">>
Text12302024 == <<"1", "2", "/", "3", "0", "/", "2", "0", "2", "4">>
Text123124 == <<"1", "2", "/", "3", "1", "/", "2", "4">>

\* The header line of a mutual-fund block and of the money-market block.
FundHeader ==
    <<<<"Record Date">>, <<"Calculated Date">>, <<"Pay Date">>,
      <<"Income Dividend Regular">>, <<"Income Dividend Special">>,
      <<"Cap. Gains Long-Term">>, <<"Cap. Gains Short-Term">>, <<"Reinvest NAV">>>>

RateHeader == <<<<"Rate">>, <<"As of Date">>>>

\* A mutual-fund data line of 8 fields.
FundRow(date, regular, special, long, short) ==
    <<date, date, date, regular, special, long, short, Text5000>>

\* Mutual-fund data lines: two of one date, one of that date written with a
\* four-digit year, one with a "$" cell, one with a non-numeric cell, one
\* with a ninth field, one with seven fields.
FundRows ==
    {FundRow(Text123024, Text025, <<>>, Text150, <<>>),
     FundRow(Text123024, Text150, <<>>, <<>>, <<>>),
     FundRow(Text12302024, Text025, Text025, <<>>, <<>>),
     FundRow(Text123124, TextDollar025, <<>>, <<>>, <<>>),
     FundRow(Text123124, Text025, TextNA, <<>>, <<>>),
     FundRow(Text123124, Text025, <<>>, <<>>, Text150) \o <<<<"note">>>>,
     SubSeq(FundRow(Text123124, Text150, <<>>, <<>>, Text025), 1, 7)}

\* Money-market data lines: two of one date, a non-numeric rate, a line of
\* three fields and a line of one.
RateRows ==
    {<<Text500, Text123024>>,
     <<Text3, Text123024>>,
     <<TextNA, Text123124>>,
     <<Text500, Text123124, <<"note">>>>,
     <<Text3>>}

\* The block of one fund: its symbol, its header line and its data lines.
Files ==
    {[symbol |-> "AGTHX", header |-> FundHeader, rows |-> r] :
        r \in SeqsUpTo(FundRows, MaxLines)} \cup
    {[symbol |-> "AFAXX", header |-> RateHeader, rows |-> r] :
        r \in SeqsUpTo(RateRows, MaxLines)}

\* distributions.txt: the symbol on a line of its own, the header, the data
DistributionsFile(f) == <<<<<<f.symbol>>>>, f.header>> \o f.rows

\* mutual_<ticker>_distributions.txt / mmf_<ticker>_distributions.txt:
\* the header, then the data
TickerFile(f) == <<f.header>> \o f.rows

\* CONFIG.MMF_TICKERS.has(ticker)
isMoneyMarketFund(ticker) == ticker = "AFAXX"

NotYetParsed == fileContent # NoFile /\ parsed = NotParsed

ParseDistributionData ==
    /\ NotYetParsed
    /\ parsed' = parseDistributionData(DistributionsFile(fileContent))
    /\ UNCHANGED <<callVars, firstCall, netVars, fileContent, mergeVars, dateVars>>

ParseSimplifiedDistributionData ==
    /\ NotYetParsed
    /\ parsed' = parseSimplifiedDistributionData(DistributionsFile(fileContent))
    /\ UNCHANGED <<callVars, firstCall, netVars, fileContent, mergeVars, dateVars>>

\* loadDistributionData of fund-data-service.js: the parser the ticker selects
ServiceLoadDistributionData ==
    /\ NotYetParsed
    /\ parsed' = processDistributions(TickerFile(fileContent),
                     IF isMoneyMarketFund(fileContent.symbol) THEN "rate" ELSE "fund",
                     "fund-data-service.js")
    /\ UNCHANGED <<callVars, firstCall, netVars, fileContent, mergeVars, dateVars>>

\* loadDistributionData of fund-data-processor.js
ProcessorLoadDistributionData ==
    /\ NotYetParsed
    /\ parsed' = processDistributions(TickerFile(fileContent),
                     IF isMoneyMarketFund(fileContent.symbol) THEN "rate" ELSE "fund",
                     "fund-data-processor.js")
    /\ UNCHANGED <<callVars, firstCall, netVars, fileContent, mergeVars, dateVars>>

InitParse ==
    /\ CalculatorsIdle
    /\ NetIdle
    /\ fileContent \in Files
    /\ parsed = NotParsed
    /\ MergeIdle
    /\ DatesIdle

NextParse ==
    \/ ParseDistributionData
    \/ ParseSimplifiedDistributionData
    \/ ServiceLoadDistributionData
    \/ ProcessorLoadDistributionData

\* A distributions file handed to one of the parsers.
SpecParse == InitParse /\ [][NextParse]_vars


\* The parser that ran read the whole distributions file or a ticker's file.
WholeFileParsers == {"parseDistributionData", "parseSimplifiedDistributionData"}

TextRead ==
    IF parsed.by \in WholeFileParsers THEN DistributionsFile(fileContent)
    ELSE TickerFile(fileContent)

\* Positions of the data lines in the text read, and the fields of one.
DataPositions ==
    {pos \in 1..Len(TextRead) :
        pos > (IF parsed.by \in WholeFileParsers THEN 2 ELSE 1)}

Fields(pos) == Trim(TextRead[pos])

\* The parser stored a record for the line at pos.
Taken(pos) == Holds(parsed.taken, pos)

ParsedFund == parsed.by # "none" /\ fileContent.symbol \in MutualFunds
ParsedRates == parsed.by # "none" /\ fileContent.symbol = "AFAXX"

\* C14: a money-market data line becomes a record exactly when it has 2
\* tab-separated fields, in every parser.
C14_ExactlyTwoFields ==
    ParsedRates => \A pos \in DataPositions : Taken(pos) <=> Len(Fields(pos)) = 2

\* C15: a mutual-fund data line becomes a record exactly when it has at
\* least as many fields as the header line (8), in every parser.
C15_AtLeastHeaderFields ==
    ParsedFund =>
        \A pos \in DataPositions :
            Taken(pos) <=> Len(Fields(pos)) >= Len(fileContent.header)

\* The number a cell stands for: its text without a leading "$" read as a
\* decimal, 0 when that is not a number.
Worth(text) ==
    LET bare == IF Len(text) > 0 /\ text[1] = "$" THEN Tail(text) ELSE text
    IN  IF IsFinite(ParseFloat(bare)) THEN ParseFloat(bare) ELSE Whole(0)

\* The date key a keyed parser files the line at pos under.
KeyOf(pos) ==
    IF parsed.by = "fund-data-service.js" THEN normalizeDate(Fields(pos)[1])
    ELSE parseDate(Fields(pos)[1])

\* The record of the j-th stored line, and the total distribution in it.
StoredRecord(j) ==
    IF parsed.shape = "keyed" THEN parsed.keyed[KeyOf(parsed.taken[j])]
    ELSE parsed.fundData[fileContent.symbol].distributions[j]

StoredTotal(j) ==
    IF parsed.shape = "keyed" THEN StoredRecord(j).distributions
    ELSE StoredRecord(j)["Total Distributions"]

\* No later stored line has the date key of the j-th.
LastOfItsDate(j) ==
    parsed.shape = "keyed" =>
        \A k \in (j + 1)..Len(parsed.taken) : KeyOf(parsed.taken[k]) # KeyOf(parsed.taken[j])

\* The parsers that compute a total distribution per row.
TotalParsers ==
    {"parseSimplifiedDistributionData", "fund-data-service.js", "fund-data-processor.js"}

\* C16: the total of every stored mutual-fund row is the sum of its fields
\* 3 to 6 (counted from 0), an empty or non-numeric field counting as 0.
C16_TotalIsSumOfFields ==
    (ParsedFund /\ parsed.by \in TotalParsers) =>
        \A j \in 1..Len(parsed.taken) :
            LET f == Fields(parsed.taken[j])
            IN  LastOfItsDate(j) =>
                    StoredTotal(j) = Sum4(Worth(f[4]), Worth(f[5]), Worth(f[6]), Worth(f[7]))

\* C17: a cell with a leading "$" is parsed to the number behind the symbol:
\* a row whose only amount is such a cell has that number as its total.
C17_CurrencySymbolStripped ==
    (ParsedFund /\ parsed.by \in TotalParsers) =>
        \A j \in 1..Len(parsed.taken) :
            LET f == Fields(parsed.taken[j])
            IN  (LastOfItsDate(j) /\ Len(f[4]) > 1 /\ f[4][1] = "$"
                   /\ f[5] = <<>> /\ f[6] = <<>> /\ f[7] = <<>>) =>
                    StoredTotal(j) = ParseFloat(Tail(f[4]))

\* The number of records the parser returned for the fund of the file.
RecordCount ==
    CASE parsed.shape = "keyed" -> Cardinality(DOMAIN parsed.keyed)
      [] parsed.shape = "lists" /\ parsed.by = "parseDistributionData"
            /\ fileContent.symbol = "AFAXX" ->
            Len(parsed.fundData["AFAXX"].rates)
      [] OTHER -> Len(parsed.fundData[fileContent.symbol].distributions)

\* C18: the parser returns one record for every data line it accepted, also
\* when two accepted lines carry the same date.
C18_OneEventPerLine ==
    parsed.by # "none" => RecordCount = Len(parsed.taken)


(***************************************************************************)
(* mergeData                                                               *)
(***************************************************************************)
ServiceFiles == {"fund-data-service.js", "fund-data-processor.js"}

\* Date keys as formatDate writes them: "12/30/2024", "12/31/2024"
Text12312024 == <<"1", "2", "/", "3", "1", "/", "2", "0", "2", "4">>
NavDates == {Text12302024, Text12312024}

\* The NAV of the series on each date: 48 and 52.
SeriesNAV(date) == IF date = Text12302024 THEN Whole(48) ELSE Whole(52)

\* The entry fetchYahooFinanceData stores for a price point.
NavEntry(date, file) ==
    [date |-> date, NAV |-> SeriesNAV(date), distributions |-> Whole(0),
     detail |-> IF file = "fund-data-service.js"
                THEN [open |-> SeriesNAV(date), high |-> SeriesNAV(date),
                      low |-> SeriesNAV(date), volume |-> Whole(0)]
                ELSE <<>>]

\* navData: the entries of some of the dates, keyed by date
NavDatas(file) == {[d \in D |-> NavEntry(d, file)] : D \in SUBSET NavDates}

\* distributionData: what processMutualFundDistributions of the file returns
\* for a mutual-fund file
\* and for a file whose one data line has the text "n/a" as its reinvest NAV
FundRowWithoutNAV ==
    <<Text123124, Text123124, Text123124, Text025, <<>>, <<>>, <<>>, TextNA>>

MutualFundFiles ==
    {g \in Files : g.symbol \in MutualFunds} \cup
    {[symbol |-> "AGTHX", header |-> FundHeader, rows |-> <<FundRowWithoutNAV>>]}

DistributionDatas(file) ==
    {processDistributions(TickerFile(f), "fund", file).keyed : f \in MutualFundFiles}

\* mergeData(navData, distributionData).  An entry of navData that has a
\* distribution keeps its NAV and takes over the distribution amount and the
\* details; fund-data-service.js spreads the details over those of the entry,
\* fund-data-processor.js replaces them.
mergeData(nav, dist, file) ==
    [date \in DOMAIN nav \cup DOMAIN dist |->
        IF date \in DOMAIN nav
        THEN IF date \in DOMAIN dist
             THEN [nav[date] EXCEPT
                     !.distributions = dist[date].distributions,
                     !.detail = IF file = "fund-data-service.js"
                                THEN dist[date].detail @@ @
                                ELSE dist[date].detail]
             ELSE nav[date]
        ELSE dist[date]]

\* const mergedData = { ...navData } copies the keys, not the entries: the
\* entries of navData are the objects the merge writes into.
NavDataAfterMerge(nav, merged) == [date \in DOMAIN nav |-> merged[date]]

\* The call  mergeData(navData, distributionData)  of the file's getFundDataByDate
Merged(file) == mergeData(mergeArgs.navData, mergeArgs.distributionData, file)

ServiceMergeData ==
    /\ mergeArgs.file = "fund-data-service.js"
    /\ mergedData = NotMerged
    /\ mergedData' = [by |-> mergeArgs.file, data |-> Merged(mergeArgs.file)]
    /\ mergeArgs' = [mergeArgs EXCEPT
                        !.navData = NavDataAfterMerge(@, Merged(mergeArgs.file))]
    /\ UNCHANGED <<callVars, firstCall, netVars, parseVars, dateVars>>

ProcessorMergeData ==
    /\ mergeArgs.file = "fund-data-processor.js"
    /\ mergedData = NotMerged
    /\ mergedData' = [by |-> mergeArgs.file, data |-> Merged(mergeArgs.file)]
    /\ mergeArgs' = [mergeArgs EXCEPT
                        !.navData = NavDataAfterMerge(@, Merged(mergeArgs.file))]
    /\ UNCHANGED <<callVars, firstCall, netVars, parseVars, dateVars>>

InitMerge ==
    /\ CalculatorsIdle
    /\ NetIdle
    /\ ParsersIdle
    /\ DatesIdle
    /\ \E file \in ServiceFiles :
          \E nav \in NavDatas(file), dist \in DistributionDatas(file) :
              mergeArgs = [file |-> file, navData |-> nav, distributionData |-> dist]
    /\ mergedData = NotMerged

NextMerge == ServiceMergeData \/ ProcessorMergeData

\* A NAV series and the distributions of a fund, merged.
SpecMerge == InitMerge /\ [][NextMerge]_vars

\* C19: where the series and the distributions both have the date and the
\* distribution record carries a reinvest NAV, the merged entry has that
\* reinvest NAV as its NAV.
C19_ReinvestNAVPrecedence ==
    mergedData.by # "none" =>
        \A date \in DOMAIN mergeArgs.navData \cap DOMAIN mergeArgs.distributionData :
            mergeArgs.distributionData[date].NAV # Whole(0) =>
                mergedData.data[date].NAV = mergeArgs.distributionData[date].NAV


(***************************************************************************)
(* Date comparison of fund-data-service.js and fund-data-processor.js      *)
(***************************************************************************)
\* Days from 1970-01-01 to the day d of month m (1..12) of year y.
DaysFromCivil(y, m, d) ==
    LET yy == IF m <= 2 THEN y - 1 ELSE y
        era == yy \div 400
        yoe == yy - era * 400
        mp == IF m > 2 THEN m - 3 ELSE m + 9
        doy == (153 * mp + 2) \div 5 + d - 1
    IN  era * 146097 + yoe * 365 + yoe \div 4 - yoe \div 100 + doy - 719468

\* The day the calculators' startDate lies on, 2024-12-30.
EpochDay == DaysFromCivil(2024, 12, 30)

\* new Date(year, monthIndex, day) on numbers: a year 0..99 means 1900 + year,
\* a month index outside 0..11 carries into the year, the day counts on from
\* the first of the month; NaN anywhere gives an Invalid Date.  The result
\* is local midnight; the dates of one comparison lie in one zone, which is
\* left out.
NewDateYMD(year, monthIndex, day) ==
    IF ~(IsFinite(year) /\ IsFinite(monthIndex) /\ IsFinite(day)) THEN InvalidDate
    ELSE LET y == IF year.n >= 0 /\ year.n <= 99 THEN 1900 + year.n ELSE year.n
             ym == y + monthIndex.n \div 12
             mn == monthIndex.n % 12
         IN  DateAt(24 * (DaysFromCivil(ym, mn + 1, 1) + day.n - 1 - EpochDay))

\* Number(text) for a text of digits: "" is 0, anything else NaN
StringToNumber(s) ==
    IF s = <<>> THEN Whole(0)
    ELSE IF DigitRun(s, 1) = Len(s) THEN Whole(DigitsValue(s, 1, Len(s)))
    ELSE NaN

\* parseInt(text): the leading digits, NaN when there is none
ParseInt(s) ==
    IF DigitRun(s, 1) = 0 THEN NaN ELSE Whole(DigitsValue(s, 1, DigitRun(s, 1)))

\* An element of a destructured or indexed array as a number; a missing one
\* is undefined, which is NaN.
NumberAt(parts, i) == IF i <= Len(parts) THEN StringToNumber(parts[i]) ELSE NaN
IntAt(parts, i) == IF i <= Len(parts) THEN ParseInt(parts[i]) ELSE NaN

\* fund-data-service.js parseToDate
parseToDate(dateStr) ==
    LET parts == Split(normalizeDate(dateStr), "/")
        month == NumberAt(parts, 1)
        day == NumberAt(parts, 2)
        year == NumberAt(parts, 3)
    IN  NewDateYMD(year, Sub(month, Whole(1)), day)

\* fund-data-service.js isDateOnOrAfter
isDateOnOrAfter(a, b) == DateGeq(parseToDate(a), parseToDate(b))

\* fund-data-processor.js toDateObject
toDateObject(dateStr) ==
    LET parts == Split(dateStr, "/")
    IN  NewDateYMD(IntAt(parts, 3), Sub(IntAt(parts, 1), Whole(1)), IntAt(parts, 2))

\* The number a Date stands for in a subtraction.
DateValue(date) == IF date.valid THEN Whole(date.t) ELSE NaN

\* fund-data-processor.js compareDates
compareDates(a, b) == Sub(DateValue(toDateObject(a)), DateValue(toDateObject(b)))

\* Calendar days written out: 2024-12-29, 2024-12-30, 2024-12-31, 2025-01-02.
CalendarDays ==
    {[y |-> 2024, m |-> 12, d |-> 29], [y |-> 2024, m |-> 12, d |-> 30],
     [y |-> 2024, m |-> 12, d |-> 31], [y |-> 2025, m |-> 1, d |-> 2]}

DigitChar(n) == <<"0", "1", "2", "3", "4", "5", "6", "7", "8", "9">>[n + 1]
TwoDigits(n) == <<DigitChar(n \div 10), DigitChar(n % 10)>>
FourDigits(n) == TwoDigits(n \div 100) \o TwoDigits(n % 100)

\* The day written in one of the shapes.
Written(c, shape) ==
    CASE shape = "MM/DD/YY" ->
            TwoDigits(c.m) \o <<"/">> \o TwoDigits(c.d) \o <<"/">> \o TwoDigits(c.y % 100)
      [] shape = "MM/DD/YYYY" ->
            TwoDigits(c.m) \o <<"/">> \o TwoDigits(c.d) \o <<"/">> \o FourDigits(c.y)
      [] OTHER ->
            FourDigits(c.y) \o <<"-">> \o TwoDigits(c.m) \o <<"-">> \o TwoDigits(c.d)

DateTexts == {Written(c, shape) : c \in CalendarDays, shape \in AcceptedShapes}

NotYetCompared == dateA # NoDate /\ compared = NotCompared

\* isDateOnOrAfter(dateA, dateB), as filterDataByDate calls it
IsDateOnOrAfter ==
    /\ NotYetCompared
    /\ compared' = [by |-> "isDateOnOrAfter", result |-> isDateOnOrAfter(dateA, dateB)]
    /\ UNCHANGED <<callVars, firstCall, netVars, parseVars, mergeVars, dateA, dateB>>

\* compareDates on the two dates as parseDate normalizes them
CompareDates ==
    /\ NotYetCompared
    /\ compared' = [by |-> "compareDates",
                    result |-> compareDates(parseDate(dateA), parseDate(dateB))]
    /\ UNCHANGED <<callVars, firstCall, netVars, parseVars, mergeVars, dateA, dateB>>

InitDates ==
    /\ CalculatorsIdle
    /\ NetIdle
    /\ ParsersIdle
    /\ MergeIdle
    /\ dateA \in DateTexts
    /\ dateB \in DateTexts
    /\ compared = NotCompared

NextDates == IsDateOnOrAfter \/ CompareDates

\* Two date strings compared.
SpecDates == InitDates /\ [][NextDates]_vars

\* The calendar day a date string of an accepted shape names.
CalendarDay(text) ==
    IF Includes(text, "-")
    THEN LET p == Split(text, "-")
         IN  DaysFromCivil(DigitsValue(p[1], 1, Len(p[1])),
                           DigitsValue(p[2], 1, Len(p[2])),
                           DigitsValue(p[3], 1, Len(p[3])))
    ELSE LET p == Split(text, "/")
             y == DigitsValue(p[3], 1, Len(p[3]))
         IN  DaysFromCivil(IF Len(p[3]) = 2 THEN 2000 + y ELSE y,
                           DigitsValue(p[1], 1, Len(p[1])),
                           DigitsValue(p[2], 1, Len(p[2])))

\* C20: the comparison of two dates agrees with the order of their calendar
\* days, whichever accepted shapes the two are written in; one day written
\* in two shapes compares equal.
C20_OrderIndependentOfShape ==
    /\ compared.by = "isDateOnOrAfter" =>
          (compared.result <=> CalendarDay(dateA) >= CalendarDay(dateB))
    /\ compared.by = "compareDates" =>
          /\ IsFinite(compared.result)
          /\ Sign(compared.result) = Sign(Whole(CalendarDay(dateA) - CalendarDay(dateB)))


(***************************************************************************)
(* fetchWithProxy of fund-data-fetcher.js                                  *)
(***************************************************************************)

\* The list PROXIES, by host.
PROXIES ==
    <<"api.allorigins.win", "corsproxy.io", "thingproxy.freeboard.io",
      "cors-anywhere.herokuapp.com">>

\* What one request can meet: fetch rejects or resolves, the status is OK or
\* not, the body is JSON text or not, and a JSON body has a "contents" property
\* that is absent, an empty string, JSON text, or text that is not JSON.
Response(fetch, ok, json, contents) ==
    [fetch |-> fetch, ok |-> ok, json |-> json, contents |-> contents]

Responses ==
    {Response("rejects", FALSE, FALSE, "absent"),
     Response("resolves", FALSE, TRUE, "absent"),
     Response("resolves", TRUE, FALSE, "absent"),
     Response("resolves", TRUE, TRUE, "absent"),
     Response("resolves", TRUE, TRUE, "empty"),
     Response("resolves", TRUE, TRUE, "json"),
     Response("resolves", TRUE, TRUE, "garbled")}

\* proxyUrl.includes('allorigins.win')
ViaAllOrigins(proxyIndex) == PROXIES[proxyIndex + 1] = "api.allorigins.win"

\* The body of the try block for one proxy: "thrown" when any statement of it
\* throws, else the document returned (the parsed body, or the parsed
\* "contents" of the allorigins wrapper).
TryProxy(response, proxyIndex) ==
    IF response.fetch = "rejects" THEN "thrown"
    ELSE IF ~response.ok THEN "thrown"
    ELSE IF ViaAllOrigins(proxyIndex)
    THEN IF ~response.json THEN "thrown"
         ELSE IF response.contents \in {"json", "garbled"}
              THEN IF response.contents = "json" THEN "contents" ELSE "thrown"
              ELSE "body"
    ELSE IF response.json THEN "body" ELSE "thrown"

\* A loop that steps over a proxy after a failure.
SkipOneProxy(proxyIndex) == proxyIndex + 2

\* proxyIndex++ after the catch block's continue
NextProxy(proxyIndex) == proxyIndex + 1

ProxyRunning == proxyRun.outcome = "running"

\* One iteration of the for loop: the proxy at proxyIndex is asked; its
\* document is returned, or the failure is caught and the loop goes on.
FetchWithProxyAttempt ==
    /\ ProxyRunning
    /\ proxyRun.proxyIndex < Len(PROXIES)
    /\ LET i == proxyRun.proxyIndex
           got == TryProxy(network[i + 1], i)
           tried == Append(proxyRun.attempts, i)
       IN  proxyRun' =
               IF got = "thrown"
               THEN [proxyRun EXCEPT !.attempts = tried, !.proxyIndex = NextProxy(i)]
               ELSE [proxyRun EXCEPT !.attempts = tried, !.outcome = "returned",
                                     !.value = got]
    /\ UNCHANGED <<callVars, firstCall, parseVars, mergeVars, dateVars, network, request>>

\* The loop ends without a return: 'All proxies failed to fetch data'.
FetchWithProxyThrow ==
    /\ ProxyRunning
    /\ ~(proxyRun.proxyIndex < Len(PROXIES))
    /\ proxyRun' = [proxyRun EXCEPT !.outcome = "thrown",
                                    !.value = "All proxies failed to fetch data"]
    /\ UNCHANGED <<callVars, firstCall, parseVars, mergeVars, dateVars, network, request>>

InitFetch ==
    /\ CalculatorsIdle
    /\ ParsersIdle
    /\ MergeIdle
    /\ DatesIdle
    /\ network \in [1..Len(PROXIES) -> Responses]
    /\ proxyRun = [NoProxyRun EXCEPT !.outcome = "running"]
    /\ request = NoRequest

NextFetch ==
    \/ FetchWithProxyAttempt
    \/ FetchWithProxyThrow

\* One call of fetchWithProxy, each proxy answering in one of the ways above.
SpecFetch == InitFetch /\ [][NextFetch]_vars

\* The proxies asked so far are the first ones of the list, in its order.
AttemptsInListOrder ==
    /\ Len(proxyRun.attempts) <= Len(PROXIES)
    /\ \A k \in 1..Len(proxyRun.attempts) : proxyRun.attempts[k] = k - 1

\* Proxy i (from 0) gave no document.
ProxyFailed(i) == TryProxy(network[i + 1], i) = "thrown"

\* C21: the proxies are attempted one at a time in the order of PROXIES; a
\* proxy is attempted only after all proxies before it have failed; after the
\* first proxy that succeeds none is attempted and its document is the result;
\* the 'All proxies failed' error comes only after every proxy was attempted
\* and failed.
C21_ProxyFallbackOrder ==
    /\ AttemptsInListOrder
    /\ \A k \in 1..Len(proxyRun.attempts) :
           \A j \in 1..(k - 1) : ProxyFailed(proxyRun.attempts[j])
    /\ proxyRun.outcome = "running" =>
           \A k \in 1..Len(proxyRun.attempts) : ProxyFailed(proxyRun.attempts[k])
    /\ proxyRun.outcome = "returned" =>
           /\ proxyRun.attempts # <<>>
           /\ LET last == proxyRun.attempts[Len(proxyRun.attempts)]
              IN  /\ ~ProxyFailed(last)
                  /\ proxyRun.value = TryProxy(network[last + 1], last)
    /\ proxyRun.outcome = "thrown" =>
           /\ Len(proxyRun.attempts) = Len(PROXIES)
           /\ \A i \in 0..(Len(PROXIES) - 1) : ProxyFailed(i)

\* Two proxies failed, the third answered, and the fourth was never asked.
C21_Witness ==
    /\ proxyRun.outcome = "returned"
    /\ proxyRun.attempts = <<0, 1, 2>>
    /\ ~ProxyFailed(3)


(***************************************************************************)
(* getFundDataByDate of fund-data-service.js and fund-data-processor.js    *)
(***************************************************************************)

\* The start dates asked for: "12/31/2024" and "2024-12-30".
StartDates == {Text12312024, Written([y |-> 2024, m |-> 12, d |-> 30], "YYYY-MM-DD")}

\* What the request for the ticker's distributions file meets: the fetch
\* rejects, the status is not OK, or the text of the file arrives.
FileAnswers(symbol) ==
    {[fetch |-> "rejects"], [fetch |-> "resolves", ok |-> FALSE]} \cup
    {[fetch |-> "resolves", ok |-> TRUE, text |-> TickerFile(f)] :
        f \in {g \in Files : g.symbol = symbol}}

\* What the request to /api/proxy meets: the fetch rejects, the status is not
\* OK, the body is not JSON, the JSON lacks the price history in a way that
\* makes reading it throw, or the price history arrives.
NavFailures ==
    {[fetch |-> "rejects"], [fetch |-> "resolves", ok |-> FALSE],
     [fetch |-> "resolves", ok |-> TRUE, json |-> FALSE],
     [fetch |-> "resolves", ok |-> TRUE, json |-> TRUE, malformed |-> TRUE]}

NavAnswers(file) ==
    NavFailures \cup
    {[fetch |-> "resolves", ok |-> TRUE, json |-> TRUE, malformed |-> FALSE,
      series |-> nav] : nav \in NavDatas(file)}

EmptyObject == <<>>

\* loadDistributionData(ticker): {} unless the file arrives, else what the
\* parser for the fund type makes of it.
loadDistributionData(symbol, answer, file) ==
    IF answer.fetch = "rejects" THEN EmptyObject
    ELSE IF ~answer.ok THEN EmptyObject
    ELSE processDistributions(answer.text,
             IF isMoneyMarketFund(symbol) THEN "rate" ELSE "fund", file).keyed

\* The try block of fetchYahooFinanceData: the entries keyed by date, or {}
\* from the catch block.
fetchYahooFinanceData(answer) ==
    IF answer.fetch = "rejects" THEN EmptyObject
    ELSE IF ~answer.ok THEN EmptyObject
    ELSE IF ~answer.json THEN EmptyObject
    ELSE IF answer.malformed THEN EmptyObject
    ELSE answer.series

\* fund-data-processor.js toYahooDateFormat(startDate), called before the try
\* block of fetchYahooFinanceData: parts[1].padStart is a TypeError when the
\* date has no "/".
ToYahooDateFormatThrows(dateStr) == Len(Split(dateStr, "/")) < 2

\* Step 4: the entries on or after the start date.
filterDataByDate(allData, from, file) ==
    LET kept == {date \in DOMAIN allData :
                    IF file = "fund-data-service.js"
                    THEN isDateOnOrAfter(date, from)
                    ELSE Geq(compareDates(date, from), Whole(0))}
    IN  [date \in kept |-> allData[date]]

\* A fund type test that takes every ticker for a mutual fund.
NeverMoneyMarket(symbol) == FALSE

\* isMoneyMarketFund(ticker) as getFundDataByDate asks it
RequestForMoneyMarket(symbol) == isMoneyMarketFund(symbol)

\* The object the try block returns and the one the catch block returns.
FundDataResult(symbol, data) ==
    [ticker |-> symbol,
     type |-> IF isMoneyMarketFund(symbol) THEN "MMF" ELSE "Mutual Fund",
     data |-> data, error |-> Absent]

FundDataError(symbol, message) ==
    [FundDataResult(symbol, EmptyObject) EXCEPT !.error = message]

\* getFundDataByDate has not returned.
NotReturned == [ticker |-> "none", type |-> "none", data |-> EmptyObject, error |-> Absent]

\* Step 1: const distributionData = await loadDistributionData(ticker)
LoadDistributionData ==
    /\ request.pc = "load"
    /\ request' = [request EXCEPT
                      !.pc = "nav",
                      !.distributionData =
                          loadDistributionData(request.ticker, network.file, request.file)]
    /\ UNCHANGED <<callVars, firstCall, parseVars, mergeVars, dateVars, network, proxyRun>>

\* Step 2 for a mutual fund: navData = await fetchYahooFinanceData(ticker, startDate)
FetchYahooFinanceData ==
    /\ request.pc = "nav"
    /\ ~RequestForMoneyMarket(request.ticker)
    /\ ~(request.file = "fund-data-processor.js" /\ ToYahooDateFormatThrows(request.startDate))
    /\ request' = [request EXCEPT
                      !.pc = "merge",
                      !.navRequested = TRUE,
                      !.navData = fetchYahooFinanceData(network.nav)]
    /\ UNCHANGED <<callVars, firstCall, parseVars, mergeVars, dateVars, network, proxyRun>>

\* Step 2 of fund-data-processor.js when toYahooDateFormat throws: the catch
\* block of getFundDataByDate returns the error object.
FetchYahooFinanceDataThrows ==
    /\ request.pc = "nav"
    /\ ~RequestForMoneyMarket(request.ticker)
    /\ request.file = "fund-data-processor.js"
    /\ ToYahooDateFormatThrows(request.startDate)
    /\ request' = [request EXCEPT
                      !.pc = "done",
                      !.result = FundDataError(request.ticker, "TypeError")]
    /\ UNCHANGED <<callVars, firstCall, parseVars, mergeVars, dateVars, network, proxyRun>>

\* Steps 3 and 4 and the return.  fund-data-processor.js takes the
\* distributions of a money market fund as they are, without mergeData.
ReturnFundData ==
    /\ \/ request.pc = "merge"
       \/ request.pc = "nav" /\ RequestForMoneyMarket(request.ticker)
    /\ LET file == request.file
           combined ==
               IF file = "fund-data-processor.js" /\ isMoneyMarketFund(request.ticker)
               THEN request.distributionData
               ELSE mergeData(request.navData, request.distributionData, file)
       IN  request' = [request EXCEPT
                          !.pc = "done",
                          !.result = FundDataResult(request.ticker,
                              filterDataByDate(combined, request.startDate, file))]
    /\ UNCHANGED <<callVars, firstCall, parseVars, mergeVars, dateVars, network, proxyRun>>

\* getFundDataByDate(ticker, startDate) is called; fund-data-service.js
\* normalizes the start date first.
InitRequest ==
    /\ CalculatorsIdle
    /\ ParsersIdle
    /\ MergeIdle
    /\ DatesIdle
    /\ proxyRun = NoProxyRun
    /\ \E file \in ServiceFiles, symbol \in {"AGTHX", "AFAXX"}, from \in StartDates :
          /\ network \in [file : FileAnswers(symbol), nav : NavAnswers(file)]
          /\ request =
                 [file |-> file, pc |-> "load", ticker |-> symbol,
                  startDate |-> IF file = "fund-data-service.js"
                                THEN normalizeDate(from) ELSE from,
                  distributionData |-> EmptyObject, navData |-> EmptyObject,
                  navRequested |-> FALSE, result |-> NotReturned]

NextRequest ==
    \/ LoadDistributionData
    \/ FetchYahooFinanceData
    \/ FetchYahooFinanceDataThrows
    \/ ReturnFundData

\* One call of getFundDataByDate of either file.
SpecRequest == InitRequest /\ [][NextRequest]_vars

RequestDone == request.pc = "done"

\* The NAV request was made and ended in the catch block of fetchYahooFinanceData.
NavRequestFailed == request.navRequested /\ network.nav \in NavFailures

\* C22: when the NAV request of a mutual fund fails, getFundDataByDate returns
\* (it does not throw), the NAV series counts as empty, and the object
\* returned carries an error.
C22_NavFailureAnnotated ==
    (RequestDone /\ ~isMoneyMarketFund(request.ticker) /\ NavRequestFailed) =>
        /\ DOMAIN request.navData = {}
        /\ request.result.ticker = request.ticker
        /\ request.result.error # Absent

\* C27: for a money market ticker the NAV request is never made, and every
\* entry of the data returned has NAV 1.00.
C27_MoneyMarketNoNavRequest ==
    (request.file # "none" /\ isMoneyMarketFund(request.ticker)) =>
        /\ ~request.navRequested
        /\ RequestDone =>
               /\ request.result.error = Absent
               /\ \A date \in DOMAIN request.result.data :
                      request.result.data[date].NAV = Whole(1)

\* A money market request has returned entries.
C27_Witness ==
    /\ RequestDone
    /\ isMoneyMarketFund(request.ticker)
    /\ request.result.type = "MMF"
    /\ DOMAIN request.result.data # {}


(***************************************************************************)
(* The accumulation logs                                                   *)
(***************************************************************************)
\* How many entries of arr are dated, in an accepted shape, on or after the
\* calendar day of the start date; dateOf names the date column.
OnOrAfterDayZero(arr, dateOf) ==
    Cardinality({i \in 1..Len(arr) :
                    /\ arr[i][dateOf].shape \in AcceptedShapes
                    /\ arr[i][dateOf].day >= 0})

\* The mutual funds of the holdings that were computed without an error.
ComputedFunds ==
    {symbol \in DOMAIN results \ {"portfolio"} : results[symbol].error = Absent}

\* C23: the log has exactly one entry per distribution event dated on or
\* after the start date, and its entries are in non-decreasing date order
\* whatever the order of the events in the input; for accumulationDetails of
\* calculateMMFPortfolio and distributionDetails of calculateMutualFundPortfolio.
C23_LogChronological ==
    /\ (call = "mmf" /\ pc = "done" /\ ~NoRates(MMFDistributionData)) =>
          LET log == mmfResult.accumulationDetails
          IN  /\ Len(log) = OnOrAfterDayZero(MMFDistributionData.rates, "date")
              /\ \A i, j \in 1..Len(log) : i < j => log[i].date.day <= log[j].date.day
    /\ (call = "mf" /\ pc = "done") =>
          \A symbol \in ComputedFunds :
              LET log == results[symbol].distributionDetails
                  table == allFundData.distributions[symbol]
              IN  (table.kind = "table" /\ table.headers = Headers) =>
                     /\ Len(log) = OnOrAfterDayZero(table.distributions, "Record Date")
                     /\ \A i, j \in 1..Len(log) : i < j => log[i].date.t <= log[j].date.t


(***************************************************************************)
(* Blocks of distributions.txt                                             *)
(***************************************************************************)
MaxBlockLines == 3   \* most lines after the header of the first block

BlankLine == <<>>
SymbolLine(symbol) == <<<<symbol>>>>

\* The lines that may follow the header: two data lines of the fund, a blank
\* line, and the symbol line of another fund.
BlockLines(symbol) ==
    {BlankLine, SymbolLine("ANCFX")} \cup
    (IF symbol = "AFAXX"
     THEN {<<Text500, Text123024>>, <<Text3, Text123124>>}
     ELSE {FundRow(Text123024, Text025, <<>>, Text150, <<>>),
           FundRow(Text123124, Text150, <<>>, <<>>, <<>>)})

BlockFiles ==
    {[symbol |-> "AGTHX", header |-> FundHeader, rows |-> r] :
        r \in SeqsUpTo(BlockLines("AGTHX"), MaxBlockLines)} \cup
    {[symbol |-> "AFAXX", header |-> RateHeader, rows |-> r] :
        r \in SeqsUpTo(BlockLines("AFAXX"), MaxBlockLines)}

InitBlocks ==
    /\ CalculatorsIdle
    /\ NetIdle
    /\ fileContent \in BlockFiles
    /\ parsed = NotParsed
    /\ MergeIdle
    /\ DatesIdle

NextBlocks ==
    \/ ParseDistributionData
    \/ ParseSimplifiedDistributionData

\* A distributions file with blank lines and further symbol lines, handed to
\* one of the two parsers of whole files.
SpecBlocks == InitBlocks /\ [][NextBlocks]_vars

IsBlank(i) == Trim(TextRead[i]) = BlankLine
IsSymbolLine(i) == \E f \in Funds : Trim(TextRead[i]) = SymbolLine(f)

\* The symbol line of the block that line p lies in.
BlockStart(p) == CHOOSE s \in 1..(p - 1) :
                     IsSymbolLine(s) /\ \A k \in (s + 1)..(p - 1) : ~IsSymbolLine(k)

\* Line h is the header of the block starting at s: the first line after s
\* that is not blank.
IsHeaderOf(h, s) == h > s /\ ~IsBlank(h) /\ \A k \in (s + 1)..(h - 1) : IsBlank(k)

\* C24: the first non-blank line after a symbol line is the header and gives
\* no record, and the data lines of a block end at a blank line or the next
\* symbol line: a line after a blank line, with no symbol line in between, is
\* not added to the records of the block.
C24_BlockStructure ==
    parsed.by \in WholeFileParsers =>
        \A k \in 1..Len(parsed.taken) :
            LET p == parsed.taken[k]
                s == BlockStart(p)
            IN  /\ ~IsSymbolLine(p)
                /\ ~IsHeaderOf(p, s)
                /\ \A h \in (s + 1)..(p - 1) :
                       IsHeaderOf(h, s) => \A q \in (h + 1)..(p - 1) : ~IsBlank(q)


(***************************************************************************)
(* mergeData: defaults and side effects                                    *)
(***************************************************************************)
\* C25: for a date that only the NAV series has, the merged entry keeps the
\* NAV of the series and has distributions = 0; for a date that only the
\* distributions have, the merged entry keeps the distribution amount and
\* has a NAV (the previous known one or the default of the fund type) that
\* is never 0 or missing.
C25_MergerDefaults ==
    mergedData.by # "none" =>
        /\ \A date \in DOMAIN mergeArgs.navData \ DOMAIN mergeArgs.distributionData :
               /\ mergedData.data[date].NAV = SeriesNAV(date)
               /\ mergedData.data[date].distributions = Whole(0)
        /\ \A date \in DOMAIN mergeArgs.distributionData \ DOMAIN mergeArgs.navData :
               /\ mergedData.data[date].distributions =
                      mergeArgs.distributionData[date].distributions
               /\ Truthy(mergedData.data[date].NAV)


\* C30: mergeData leaves its arguments as they were: after the call every
\* entry of navData has the content fetchYahooFinanceData gave it, so that a
\* second merge of the same navData is not influenced by the first.
C30_MergeLeavesArguments ==
    mergedData.by # "none" =>
        \A date \in DOMAIN mergeArgs.navData :
            mergeArgs.navData[date] = NavEntry(date, mergeArgs.file)


(***************************************************************************)
(* Date strings of other shapes                                            *)
(***************************************************************************)
\* fund-distribution-parser.js formatDate
formatDate(dateString) ==
    LET parts == Split(dateString, "/")
    IN  IF Len(parts) = 3 /\ Len(parts[3]) = 2
        THEN parts[1] \o <<"/">> \o parts[2] \o <<"/">> \o <<"2", "0">> \o parts[3]
        ELSE dateString

\* parts[2].length of parseDate is a TypeError when a date with "/" has
\* fewer than three parts.
ParseDateThrows(dateStr) == Includes(dateStr, "/") /\ Len(Split(dateStr, "/")) < 3

\* Date strings of no accepted shape: "20241230", "12/2024", "12-2024".
TextNoSeparator == <<"2", "0", "2", "4", "1", "2", "3", "0">>
TextTwoParts == <<"1", "2", "/", "2", "0", "2", "4">>
TextTwoPartsDash == <<"1", "2", "-", "2", "0", "2", "4">>
UnrecognizedDateTexts == {TextNoSeparator, TextTwoParts, TextTwoPartsDash}

\* normalizeDate(dateA), and isDateOnOrAfter on what it returned
NormalizeDate ==
    /\ NotYetCompared
    /\ compared' = [by |-> "normalizeDate", thrown |-> FALSE,
                    text |-> normalizeDate(dateA),
                    result |-> isDateOnOrAfter(normalizeDate(dateA), dateB)]
    /\ UNCHANGED <<callVars, firstCall, netVars, parseVars, mergeVars, dateA, dateB>>

\* parseDate(dateA), and compareDates on what it returned
ParseDate ==
    /\ NotYetCompared
    /\ compared' = IF ParseDateThrows(dateA)
                   THEN [by |-> "parseDate", thrown |-> TRUE, text |-> <<>>,
                         result |-> "none"]
                   ELSE [by |-> "parseDate", thrown |-> FALSE,
                         text |-> parseDate(dateA),
                         result |-> compareDates(parseDate(dateA), parseDate(dateB))]
    /\ UNCHANGED <<callVars, firstCall, netVars, parseVars, mergeVars, dateA, dateB>>

\* formatDate(dateA) of fund-distribution-parser.js, which nothing calls
FormatDate ==
    /\ NotYetCompared
    /\ compared' = [by |-> "formatDate", thrown |-> FALSE, text |-> formatDate(dateA),
                    result |-> "none"]
    /\ UNCHANGED <<callVars, firstCall, netVars, parseVars, mergeVars, dateA, dateB>>

InitShapes ==
    /\ CalculatorsIdle
    /\ NetIdle
    /\ ParsersIdle
    /\ MergeIdle
    /\ dateA \in UnrecognizedDateTexts \cup {Text123024}
    /\ dateB \in DateTexts
    /\ compared = NotCompared

NextShapes == NormalizeDate \/ ParseDate \/ FormatDate

\* A date string given to one of the three normalizers and then compared.
SpecShapes == InitShapes /\ [][NextShapes]_vars

\* C26: a date string of an unrecognized shape (no separator, or a separator
\* but fewer than three parts) comes out of normalizeDate, parseDate and
\* formatDate unchanged, with no exception from the normalizer or from the
\* comparison that follows.
C26_UnrecognizedPassesThrough ==
    (compared.by \in {"normalizeDate", "parseDate", "formatDate"}
        /\ dateA \in UnrecognizedDateTexts) =>
            /\ ~compared.thrown
            /\ compared.text = dateA


(***************************************************************************)
(* Attribution and the recorded steps of calculateMutualFundPortfolio      *)
(***************************************************************************)
\* a === b on numbers: NaN equals nothing, itself included
SameNumber(a, b) ==
    /\ ~IsNaN(ToNumber(a))
    /\ ~IsNaN(ToNumber(b))
    /\ ToNumber(a) = ToNumber(b)

\* The sum of a figure over the first k funds of the holdings, the funds with
\* an error entry left out.
RECURSIVE SumOfComputed(_, _)
SumOfComputed(k, figure) ==
    IF k = 0 THEN Whole(0)
    ELSE LET r == results[initialHoldings[k].symbol]
         IN  IF r.error = Absent
             THEN Add(SumOfComputed(k - 1, figure), r[figure])
             ELSE SumOfComputed(k - 1, figure)

\* C28: for every fund computed without error valueChangeFromNAV +
\* valueChangeFromDistributions = totalReturn = currentValue - initialValue,
\* and the portfolio's totalInitialValue and totalCurrentValue are the sums of
\* initialValue and currentValue over the funds computed without error.
C28_AttributionAddsUp ==
    (call = "mf" /\ pc = "done") =>
        /\ \A e \in Holdings :
               LET r == results[e.symbol]
               IN  r.error = Absent =>
                      /\ SameNumber(Add(r.valueChangeFromNAV, r.valueChangeFromDistributions),
                                    r.totalReturn)
                      /\ SameNumber(r.totalReturn, Sub(r.currentValue, r.initialValue))
        /\ SameNumber(results["portfolio"].totalInitialValue,
                      SumOfComputed(Len(initialHoldings), "initialValue"))
        /\ SameNumber(results["portfolio"].totalCurrentValue,
                      SumOfComputed(Len(initialHoldings), "currentValue"))


\* C29: every step recorded by calculateMutualFundPortfolio agrees with the
\* computation: its totalDistribution is distributionPerShare * the share
\* count before the step (that is additionalShares * reinvestmentNAV), and its
\* runningShares is the share count before the step plus additionalShares.
C29_StepConsistent ==
    (call = "mf" /\ pc = "done") =>
        \A symbol \in ComputedFunds :
            LET log == results[symbol].distributionDetails
                steps == StepsOf(symbol)
            IN  /\ Len(log) = Len(steps)
                /\ \A i \in 1..Len(log) :
                       /\ log[i].totalDistribution =
                              ToFixed(Mul(steps[i].perUnit, steps[i].before), 2)
                       /\ log[i].runningShares =
                              ToFixed(Add(steps[i].before, steps[i].amount), 6)

=============================================================================
